---- MODULE Spec2Model ----
(***************************************************************************)
(* Model of the VTY I/O FIFO (vio_fifo.c): a byte FIFO built from a list   *)
(* of fixed size lumps, with a hold mark and an end mark.                  *)
(*                                                                         *)
(* A pointer into a lump is modelled as the pair (lump address, offset);   *)
(* two pointers are equal iff both parts are equal.  NullPtr is NULL.      *)
(* The pointers-to-pointers p_start, p_end and p_get_end are modelled by   *)
(* the name of the field they point at.  Lump sizes are scaled down from   *)
(* multiples of 128 to MinLump..MaxLump bytes.  Every byte put is given a  *)
(* fresh value 1, 2, 3, ... so that loss, duplication and reordering are   *)
(* all visible; 0 is the content of storage never written.                 *)
(***************************************************************************)
EXTENDS Integers, Sequences, FiniteSets, TLC

\* smallest and largest lump size
MinLump == 2
MaxLump == 3
\* total number of bytes put in one behaviour
MaxPut == 5
\* largest byte count of one put or get request
MaxReq == 3
\* number of public operations called in one behaviour
MaxOps == 7
\* number of public operations called before a drain loop starts (SpecDrain)
MaxFill == 4
\* largest buffer of a qf_str, longest source string and largest offset
\* given to qfs_append (SpecAppend)
MaxBuf == 3
MaxSrc == 3
MaxOff == 2
\* qf_str.overflow is a uint: it counts modulo UintWrap (2^32 in the build;
\* a small modulus here keeps the counter's cycle within reach)
UintWrap == 4

\* lump addresses: the embedded own_lump plus what the allocator can return
\* (a lump is added only when the tail is full, so at most once per byte put)
NLumps == MaxPut + 1
Lumps == 1..NLumps
own_lump == 1
NULL == 0

Ptr(l, o) == [l |-> l, o |-> o]
NullPtr == Ptr(NULL, 0)

VARIABLES
  vff,      \* the struct vio_fifo, its lumps' storage and the allocator's view
  nput,     \* number of bytes put so far (the next byte put is nput + 1)
  ngot,     \* number of bytes returned by vio_fifo_get_bytes so far
  nops,     \* number of public operations called so far
  vff2,     \* a second struct vio_fifo, of another lump size (see SpecSizes)
  drain,    \* the caller's loop of vio_fifo_write_nb calls (see SpecDrain)
  app       \* a call of qfs_append and where it has got to (see SpecAppend)

vars == <<vff, nput, ngot, nops, vff2, drain, app>>

(***************************************************************************)
(* The lump list (ddl_xxx macros on vff->base).                            *)
(***************************************************************************)
ddl_head(base) == IF base = <<>> THEN NULL ELSE base[1]

ddl_tail(base) == IF base = <<>> THEN NULL ELSE base[Len(base)]

InList(base, l) == \E i \in 1..Len(base) : base[i] = l

PosOf(base, l) == IF InList(base, l)
                    THEN CHOOSE i \in 1..Len(base) : base[i] = l
                    ELSE 0

ddl_next(base, l) ==
  LET i == PosOf(base, l)
  IN  IF i = 0 \/ i = Len(base) THEN NULL ELSE base[i + 1]

\* lump->data and lump->end
lump_data(l) == Ptr(l, 0)

lump_end(f, l) == Ptr(l, f.size)

(***************************************************************************)
(* Abnormal termination: a failed assert(), or a NULL dereference.         *)
(***************************************************************************)
Abort(f, why) == IF f.abort = "" THEN [f EXCEPT !.abort = why] ELSE f

Running(f) == f.abort = ""

(***************************************************************************)
(* The indirections.                                                       *)
(***************************************************************************)
vio_fifo_have_hold_mark(f) == f.p_start = "hold_ptr"

vio_fifo_have_end_mark(f) == f.p_end = "end_ptr"

\* *vff->p_start
p_start_val(f) == IF f.p_start = "hold_ptr" THEN f.hold_ptr ELSE f.get_ptr

\* *vff->p_end
p_end_val(f) == IF f.p_end = "end_ptr" THEN f.end_ptr ELSE f.put_ptr

\* *vff->p_get_end
p_get_end_val(f) ==
  CASE f.p_get_end.k = "put_ptr" -> f.put_ptr
    [] f.p_get_end.k = "end_ptr" -> f.end_ptr
    [] OTHER                     -> lump_end(f, f.p_get_end.l)

PGetEnd(k, l) == [k |-> k, l |-> l]

\* vio_fifo_reset_ptrs which drops the marks of the emptied FIFO
reset_ptrs_clears_marks(f) ==
  LET ptr == lump_data(ddl_tail(f.base))
  IN  [f EXCEPT !.hold_ptr = ptr, !.get_ptr = ptr,
                !.end_ptr = ptr,  !.put_ptr = ptr,
                !.p_start = "get_ptr", !.p_end = "put_ptr"]

vio_fifo_reset_ptrs(f) ==
  LET ptr == lump_data(ddl_tail(f.base))
  IN  [f EXCEPT !.hold_ptr = ptr, !.get_ptr = ptr,
                !.end_ptr = ptr,  !.put_ptr = ptr]

vio_fifo_set_get_end(f) ==
  [f EXCEPT !.p_get_end = IF f.get_lump = f.end_lump
                            THEN PGetEnd(f.p_end, NULL)
                            ELSE PGetEnd("lump_end", f.get_lump)]

\* NB: the ptr argument is not used by the code
vio_fifo_set_get_ptr(f, lump, ptr) ==
  IF lump = NULL
    THEN Abort(f, "set_get_ptr: NULL lump")
    ELSE vio_fifo_set_get_end([f EXCEPT !.get_lump = lump,
                                        !.get_ptr  = lump_data(lump)])

(***************************************************************************)
(* Releasing lumps.                                                        *)
(***************************************************************************)
XFREE(f, lump) ==
  IF lump \in f.heap
    THEN [f EXCEPT !.heap = @ \ {lump}]
    ELSE Abort(f, "XFREE: not an allocated lump")

\* vio_fifo_release_lump without the exchange of own_lump for the spare:
\* whatever lump is released while a spare is held goes to XFREE
release_lump_frees_own(f, lump) ==
  IF ~Running(f) THEN f
  ELSE IF lump = NULL THEN Abort(f, "release_lump: lump != NULL")
  ELSE IF lump = f.get_lump THEN Abort(f, "release_lump: lump != get_lump")
  ELSE IF lump = f.end_lump THEN Abort(f, "release_lump: lump != end_lump")
  ELSE IF f.spare = NULL THEN [f EXCEPT !.spare = lump]
  ELSE XFREE(f, lump)

vio_fifo_release_lump(f, lump) ==
  IF ~Running(f) THEN f
  ELSE IF lump = NULL THEN Abort(f, "release_lump: lump != NULL")
  ELSE IF lump = f.get_lump THEN Abort(f, "release_lump: lump != get_lump")
  ELSE IF lump = f.end_lump THEN Abort(f, "release_lump: lump != end_lump")
  ELSE IF f.spare = NULL THEN [f EXCEPT !.spare = lump]
  ELSE IF lump = own_lump
         THEN XFREE([f EXCEPT !.spare = own_lump], f.spare)
         ELSE XFREE(f, lump)

\* ddl_pop: take the head off the list (NULL if the list is empty)
ddl_pop(f) == [f EXCEPT !.base = IF @ = <<>> THEN @ ELSE Tail(@)]

\* ddl_crop: take the tail off the list (NULL if the list is empty)
ddl_crop(f) ==
  [f EXCEPT !.base = IF @ = <<>> THEN @ ELSE SubSeq(@, 1, Len(@) - 1)]

RECURSIVE vio_fifo_release_upto(_, _)
vio_fifo_release_upto(f, upto) ==
  IF ~Running(f) \/ ddl_head(f.base) = upto
    THEN f
    ELSE vio_fifo_release_upto(
           vio_fifo_release_lump(ddl_pop(f), ddl_head(f.base)), upto)

(***************************************************************************)
(* Advancing the get pointer.                                              *)
(***************************************************************************)
\* vio_fifo_sync_get which does not reset the pointers of an empty FIFO
sync_get_never_resets(f) ==
  IF f.get_lump = f.end_lump
    THEN f
    ELSE LET get_lump == ddl_next(f.base, f.get_lump)
             g == vio_fifo_set_get_ptr(f, get_lump, lump_data(get_lump))
         IN  IF Running(g) /\ ~vio_fifo_have_hold_mark(g)
               THEN vio_fifo_release_upto(g, get_lump)
               ELSE g

vio_fifo_sync_get(f) ==
  IF f.get_lump = f.end_lump
    THEN IF p_start_val(f) = f.put_ptr THEN vio_fifo_reset_ptrs(f) ELSE f
    ELSE LET get_lump == ddl_next(f.base, f.get_lump)
             g == vio_fifo_set_get_ptr(f, get_lump, lump_data(get_lump))
         IN  IF Running(g) /\ ~vio_fifo_have_hold_mark(g)
               THEN vio_fifo_release_upto(g, get_lump)
               ELSE g

\* vio_fifo_get: number of bytes available at get_ptr without changing lump.
\* The subtraction is defined for pointers into one lump; -1 stands for any
\* other, at which the callers end the behaviour (see OnlyClearAborts).
vio_fifo_get(f) ==
  LET e == p_get_end_val(f)
  IN  IF e.l = f.get_ptr.l /\ e.o >= f.get_ptr.o THEN e.o - f.get_ptr.o ELSE -1

\* vio_fifo_step: step the get pointer past n bytes, then synchronise
vio_fifo_step(f, n) ==
  LET g == [f EXCEPT !.get_ptr = Ptr(f.get_ptr.l, f.get_ptr.o + n)]
  IN  IF g.get_ptr.l = p_get_end_val(g).l /\ g.get_ptr.o >= p_get_end_val(g).o
        THEN vio_fifo_sync_get(g)
        ELSE g

(***************************************************************************)
(* Adding a lump.  The allocator returns the lowest free address.          *)
(***************************************************************************)
FreeAddrs(f) == Lumps \ (f.heap \cup {own_lump})

Min(S) == CHOOSE x \in S : \A y \in S : x <= y

Blank == [i \in 1..MaxLump |-> 0]

\* XMALLOC of a lump: contents are indeterminate, modelled as never written
XMALLOC(f) ==
  LET a == Min(FreeAddrs(f))
  IN  [f EXCEPT !.heap = @ \cup {a}, !.data[a] = Blank, !.fresh = a]

\* vio_fifo_add_lump which allocates a lump whether it holds a spare or not
add_lump_always_allocates(f) ==
  IF ~Running(f) THEN f
  ELSE IF f.put_ptr # f.put_end THEN Abort(f, "add_lump: put_ptr == put_end")
  ELSE IF f.put_ptr = p_start_val(f) THEN Abort(f, "add_lump: put_ptr != *p_start")
  ELSE IF FreeAddrs(f) = {} THEN Abort(f, "XMALLOC: out of memory")
  ELSE
    LET a    == XMALLOC([f EXCEPT !.spare = NULL])
        lump == a.fresh
        b    == [a EXCEPT !.base = Append(@, lump)]
        c    == IF f.get_ptr = f.put_ptr
                  THEN [b EXCEPT !.get_lump = lump, !.get_ptr = lump_data(lump)]
                  ELSE b
        d    == IF f.put_ptr = p_end_val(f)
                  THEN [c EXCEPT !.end_lump = lump, !.end_ptr = lump_data(lump)]
                  ELSE c
        e    == [d EXCEPT !.put_ptr = lump_data(lump),
                          !.put_end = lump_end(f, lump),
                          !.fresh = NULL]
    IN  vio_fifo_set_get_end(e)

\* vio_fifo_add_lump which leaves get_ptr where it is
add_lump_leaves_get(f) ==
  IF ~Running(f) THEN f
  ELSE IF f.put_ptr # f.put_end THEN Abort(f, "add_lump: put_ptr == put_end")
  ELSE IF f.put_ptr = p_start_val(f) THEN Abort(f, "add_lump: put_ptr != *p_start")
  ELSE IF f.spare = NULL /\ FreeAddrs(f) = {} THEN Abort(f, "XMALLOC: out of memory")
  ELSE
    LET a    == IF f.spare # NULL THEN [f EXCEPT !.spare = NULL, !.fresh = f.spare]
                                  ELSE XMALLOC(f)
        lump == a.fresh
        b    == [a EXCEPT !.base = Append(@, lump)]
        d    == IF f.put_ptr = p_end_val(f)
                  THEN [b EXCEPT !.end_lump = lump, !.end_ptr = lump_data(lump)]
                  ELSE b
        e    == [d EXCEPT !.put_ptr = lump_data(lump),
                          !.put_end = lump_end(f, lump),
                          !.fresh = NULL]
    IN  vio_fifo_set_get_end(e)

\* vio_fifo_add_lump which moves the end to the new lump whether or not
\* put_ptr == *p_end
add_lump_moves_end(f) ==
  IF ~Running(f) THEN f
  ELSE IF f.put_ptr # f.put_end THEN Abort(f, "add_lump: put_ptr == put_end")
  ELSE IF f.put_ptr = p_start_val(f) THEN Abort(f, "add_lump: put_ptr != *p_start")
  ELSE IF f.spare = NULL /\ FreeAddrs(f) = {} THEN Abort(f, "XMALLOC: out of memory")
  ELSE
    LET a    == IF f.spare # NULL THEN [f EXCEPT !.spare = NULL, !.fresh = f.spare]
                                  ELSE XMALLOC(f)
        lump == a.fresh
        b    == [a EXCEPT !.base = Append(@, lump)]
        c    == IF f.get_ptr = f.put_ptr
                  THEN [b EXCEPT !.get_lump = lump, !.get_ptr = lump_data(lump)]
                  ELSE b
        d    == [c EXCEPT !.end_lump = lump, !.end_ptr = lump_data(lump)]
        e    == [d EXCEPT !.put_ptr = lump_data(lump),
                          !.put_end = lump_end(f, lump),
                          !.fresh = NULL]
    IN  vio_fifo_set_get_end(e)

vio_fifo_add_lump(f) ==
  IF ~Running(f) THEN f
  ELSE IF f.put_ptr # f.put_end THEN Abort(f, "add_lump: put_ptr == put_end")
  ELSE IF f.put_ptr = p_start_val(f) THEN Abort(f, "add_lump: put_ptr != *p_start")
  ELSE IF f.spare = NULL /\ FreeAddrs(f) = {} THEN Abort(f, "XMALLOC: out of memory")
  ELSE
    LET a    == IF f.spare # NULL THEN [f EXCEPT !.spare = NULL, !.fresh = f.spare]
                                  ELSE XMALLOC(f)
        lump == a.fresh
        b    == [a EXCEPT !.base = Append(@, lump)]
        c    == IF f.get_ptr = f.put_ptr
                  THEN [b EXCEPT !.get_lump = lump, !.get_ptr = lump_data(lump)]
                  ELSE b
        d    == IF f.put_ptr = p_end_val(f)
                  THEN [c EXCEPT !.end_lump = lump, !.end_ptr = lump_data(lump)]
                  ELSE c
        e    == [d EXCEPT !.put_ptr = lump_data(lump),
                          !.put_end = lump_end(f, lump),
                          !.fresh = NULL]
    IN  vio_fifo_set_get_end(e)

(***************************************************************************)
(* Put.                                                                    *)
(***************************************************************************)
\* memcpy(vff->put_ptr, src, take)
StoreBytes(f, src, take) ==
  [f EXCEPT !.data[f.put_ptr.l] =
      [i \in 1..MaxLump |->
         IF i > f.put_ptr.o /\ i <= f.put_ptr.o + take
           THEN src[i - f.put_ptr.o] ELSE @[i]],
            !.put_ptr = Ptr(f.put_ptr.l, f.put_ptr.o + take)]

\* vio_fifo_put_bytes without "src += take": every section is copied from
\* the start of the source again
RECURSIVE put_bytes_no_src_step(_, _)
put_bytes_no_src_step(f, src) ==
  IF ~Running(f) \/ Len(src) = 0 THEN f
  ELSE
    LET g == IF f.put_ptr.o >= f.put_end.o THEN vio_fifo_add_lump(f) ELSE f
        room == g.put_end.o - g.put_ptr.o
        take == IF room > Len(src) THEN Len(src) ELSE room
    IN  IF ~Running(g) THEN g
        ELSE put_bytes_no_src_step(StoreBytes(g, src, take),
                                   SubSeq(src, 1, Len(src) - take))

RECURSIVE vio_fifo_put_bytes(_, _)
vio_fifo_put_bytes(f, src) ==
  IF ~Running(f) \/ Len(src) = 0 THEN f
  ELSE
    LET g == IF f.put_ptr.o >= f.put_end.o THEN vio_fifo_add_lump(f) ELSE f
        room == g.put_end.o - g.put_ptr.o
        take == IF room > Len(src) THEN Len(src) ELSE room
    IN  IF ~Running(g) THEN g
        ELSE vio_fifo_put_bytes(StoreBytes(g, src, take),
                                SubSeq(src, take + 1, Len(src)))

(***************************************************************************)
(* Get.                                                                    *)
(***************************************************************************)
\* the take bytes at get_ptr
LoadBytes(f, take) ==
  [i \in 1..take |-> f.data[f.get_ptr.l][f.get_ptr.o + i]]

\* result of a get: the fifo and the bytes copied out
Got(f, bytes) == [f |-> f, bytes |-> bytes]

RECURSIVE vio_fifo_get_bytes(_, _, _)
vio_fifo_get_bytes(f, n, dst) ==
  IF ~Running(f) \/ n = 0 THEN Got(f, dst)
  ELSE
    LET have == vio_fifo_get(f)
        take == IF have > n THEN n ELSE have
    IN  IF have < 0 THEN Got(Abort(f, "get_bytes: get_ptr beyond *p_get_end"), dst)
        ELSE IF take = 0 THEN Got(f, dst)
        ELSE vio_fifo_get_bytes(vio_fifo_step(f, take), n - take,
                                dst \o LoadBytes(f, take))

(***************************************************************************)
(* vio_fifo_new                                                            *)
(***************************************************************************)
vio_fifo_new(size) ==
  [ size      |-> size,
    base      |-> <<own_lump>>,
    spare     |-> NULL,
    p_start   |-> "get_ptr",
    hold_ptr  |-> NullPtr,
    get_lump  |-> own_lump,
    get_ptr   |-> lump_data(own_lump),
    p_get_end |-> PGetEnd("put_ptr", NULL),
    end_lump  |-> own_lump,
    end_ptr   |-> NullPtr,
    put_ptr   |-> lump_data(own_lump),
    put_end   |-> Ptr(own_lump, size),
    p_end     |-> "put_ptr",
    data      |-> [l \in Lumps |-> Blank],
    heap      |-> {},
    fresh     |-> NULL,
    abort     |-> "" ]

(***************************************************************************)
(* Formatted put.  The renderer is given the text it renders: qfs_vprintf  *)
(* appends the format's bytes one at a time with qfs_append_ch.            *)
(***************************************************************************)
\* qfs_init_offset which skips one byte more when it resumes a rendering
init_offset_skips_one(str, size, offset) ==
  [str |-> str, ptr |-> str, end |-> Ptr(str.l, str.o + size),
   offset |-> IF offset > 0 THEN offset + 1 ELSE 0, overflow |-> 0,
   text |-> <<>>]

qfs_init_offset(str, size, offset) ==
  [str |-> str, ptr |-> str, end |-> Ptr(str.l, str.o + size),
   offset |-> offset, overflow |-> 0, text |-> <<>>]

qfs_append_ch(qfs, ch) ==
  IF qfs.offset > 0 THEN [qfs EXCEPT !.offset = @ - 1]
  ELSE IF qfs.ptr.o < qfs.end.o
         THEN [qfs EXCEPT !.ptr = Ptr(@.l, @.o + 1), !.text = Append(@, ch)]
         ELSE [qfs EXCEPT !.overflow = @ + 1]

RECURSIVE qfs_vprintf(_, _)
qfs_vprintf(qfs, format) ==
  IF format = <<>> THEN qfs
  ELSE qfs_vprintf(qfs_append_ch(qfs, Head(format)), Tail(format))

\* qfs_len: the length of the qf_str
qfs_len(qfs) == qfs.ptr.o - qfs.str.o

\* result of a put that returns a count
Done(f, n) == [f |-> f, n |-> n]

RECURSIVE vio_fifo_vprintf(_, _, _)
vio_fifo_vprintf(f, format, done) ==
  LET g == IF f.put_ptr.o >= f.put_end.o THEN vio_fifo_add_lump(f) ELSE f
      qfs == qfs_vprintf(
               qfs_init_offset(g.put_ptr, g.put_end.o - g.put_ptr.o, done),
               format)
      did == qfs_len(qfs)
      h == StoreBytes(g, qfs.text, did)
  IN  IF ~Running(g) THEN Done(g, done)
      ELSE IF qfs.overflow # 0 THEN vio_fifo_vprintf(h, format, done + did)
      ELSE Done(h, done + did)

(***************************************************************************)
(* Read from a non-blocking file.  The file is given as the bytes it can   *)
(* supply now (input) and what a read returns once they are used up (fin:  *)
(* 0 would block, -1 error, -2 end of file).                               *)
(***************************************************************************)
\* read_nb(fd, buf, n)
read_nb(input, fin, n) ==
  IF n > 0 /\ Len(input) > 0
    THEN IF Len(input) < n THEN Len(input) ELSE n
    ELSE fin

\* result of a read: the fifo, the return code, the bytes taken from the file
ReadDone(f, rc, taken) == [f |-> f, rc |-> rc, taken |-> taken]

\* vio_fifo_read_nb which returns the count read so far when a read fails
RECURSIVE read_nb_counts_on_error(_, _, _, _, _)
read_nb_counts_on_error(f, input, fin, request, total) ==
  LET full == f.put_ptr.o >= f.put_end.o
      g == IF full THEN vio_fifo_add_lump(f) ELSE f
      req == IF full /\ request > 0 THEN request - 1 ELSE request
      got == read_nb(input, fin, g.put_end.o - g.put_ptr.o)
      h == StoreBytes(g, input, got)
  IN  IF ~Running(g) THEN ReadDone(g, total, total)
      ELSE IF got <= 0
        THEN ReadDone(g, IF total > 0 THEN total ELSE got, total)
      ELSE IF req > 0
        THEN read_nb_counts_on_error(h, SubSeq(input, got + 1, Len(input)),
                                     fin, req, total + got)
      ELSE ReadDone(h, total + got, total + got)

RECURSIVE vio_fifo_read_nb(_, _, _, _, _)
vio_fifo_read_nb(f, input, fin, request, total) ==
  LET full == f.put_ptr.o >= f.put_end.o
      g == IF full THEN vio_fifo_add_lump(f) ELSE f
      req == IF full /\ request > 0 THEN request - 1 ELSE request
      got == read_nb(input, fin, g.put_end.o - g.put_ptr.o)
      h == StoreBytes(g, input, got)
  IN  IF ~Running(g) THEN ReadDone(g, total, total)
      ELSE IF got <= 0
        THEN IF got = -2
               THEN ReadDone(g, IF total > 0 THEN total ELSE got, total)
               ELSE ReadDone(g, IF got = 0 THEN total ELSE got, total)
      ELSE IF req > 0
        THEN vio_fifo_read_nb(h, SubSeq(input, got + 1, Len(input)), fin,
                              req, total + got)
      ELSE ReadDone(h, total + got, total + got)

(***************************************************************************)
(* Copy.  The destination is created by the copy (dst == NULL).            *)
(***************************************************************************)
\* a vio_fifo argument which is NULL
NULL_FIFO == [size |-> 0]

\* the bytes of lump l from offset a up to offset b
Bytes(f, l, a, b) == [i \in 1..(b - a) |-> f.data[l][a + i]]

\* the loop of vio_fifo_copy and vio_fifo_copy_tail: from src_ptr in src_lump
\* up to last_end in the lump last; src_end - src_ptr is the unsigned length
\* given to vio_fifo_put_bytes, so a src_end before src_ptr is a wild copy
RECURSIVE CopyLoop(_, _, _, _, _, _)
CopyLoop(dst, src, src_lump, src_ptr, last, last_end) ==
  LET src_end == IF src_lump # last THEN lump_end(src, src_lump) ELSE last_end
      ok    == src_end.l = src_ptr.l /\ src_end.o >= src_ptr.o
      d     == IF ok
                 THEN vio_fifo_put_bytes(dst,
                          Bytes(src, src_lump, src_ptr.o, src_end.o))
                 ELSE Abort(dst, "copy: src_end before src_ptr")
      next  == ddl_next(src.base, src_lump)
  IN  IF ~Running(d) \/ src_lump = last THEN d
      ELSE IF next = NULL THEN Abort(d, "copy: NULL lump")
      ELSE CopyLoop(d, src, next, lump_data(next), last, last_end)

\* the result is the dst returned and the src as the call leaves it
vio_fifo_copy(dst, src) ==
  LET d == IF dst = NULL_FIFO THEN vio_fifo_new(src.size) ELSE dst
  IN  [dst |-> CopyLoop(d, src, src.get_lump, src.get_ptr,
                        src.end_lump, p_end_val(src)),
       src |-> src]

vio_fifo_copy_tail(dst, src) ==
  LET d == IF dst = NULL_FIFO THEN vio_fifo_new(src.size) ELSE dst
  IN  [dst |-> IF ~vio_fifo_have_end_mark(src) THEN d
               ELSE CopyLoop(d, src, src.end_lump, src.end_ptr,
                             ddl_tail(src.base), src.put_ptr),
       src |-> src]

(***************************************************************************)
(* End mark operations.                                                    *)
(***************************************************************************)
\* vio_fifo_set_end_mark taking the head of the list for its tail
set_end_mark_at_head(f) ==
  vio_fifo_set_get_end([f EXCEPT !.p_end = "end_ptr",
                                 !.end_ptr = f.put_ptr,
                                 !.end_lump = ddl_head(f.base)])

vio_fifo_set_end_mark(f) ==
  vio_fifo_set_get_end([f EXCEPT !.p_end = "end_ptr",
                                 !.end_ptr = f.put_ptr,
                                 !.end_lump = ddl_tail(f.base)])

\* vio_fifo_step_end_mark which sets an end mark if there is none
step_end_mark_sets(f) ==
  vio_fifo_set_get_end([f EXCEPT !.p_end = "end_ptr",
                                 !.end_ptr = f.put_ptr,
                                 !.end_lump = ddl_tail(f.base)])

vio_fifo_step_end_mark(f) ==
  IF vio_fifo_have_end_mark(f)
    THEN vio_fifo_set_get_end([f EXCEPT !.end_ptr = f.put_ptr,
                                        !.end_lump = ddl_tail(f.base)])
    ELSE f

\* vio_fifo_clear_end_mark without the call of vio_fifo_set_get_end
clear_end_mark_keeps_get_end(f) ==
  [f EXCEPT !.p_end = "put_ptr", !.end_lump = ddl_tail(f.base)]

vio_fifo_clear_end_mark(f) ==
  vio_fifo_set_get_end([f EXCEPT !.p_end = "put_ptr",
                                 !.end_lump = ddl_tail(f.base)])

\* do release_lump(ddl_crop()) while (end_lump != ddl_tail())
RECURSIVE CropLoop(_)
CropLoop(f) ==
  LET g == vio_fifo_release_lump(ddl_crop(f), ddl_tail(f.base))
  IN  IF Running(g) /\ g.end_lump # ddl_tail(g.base) THEN CropLoop(g) ELSE g

vio_fifo_back_to_end_mark(f, keep) ==
  LET a == IF f.end_lump # ddl_tail(f.base)
             THEN LET c == CropLoop(f)
                  IN  [c EXCEPT !.put_end = lump_end(c, c.end_lump)]
             ELSE f
      b == IF p_end_val(f) = f.put_ptr THEN f
           ELSE IF ~Running(a) THEN a
           ELSE IF p_start_val(a) = a.end_ptr
                  THEN vio_fifo_reset_ptrs(a)
                  ELSE [a EXCEPT !.put_ptr = a.end_ptr]
  IN  IF ~Running(b) \/ keep THEN b
      ELSE vio_fifo_set_get_end([b EXCEPT !.p_end = "put_ptr"])

(***************************************************************************)
(* Write and skip.  A non-blocking sink is given as the number of bytes    *)
(* it accepts before it stops accepting (room) and whether it then fails   *)
(* rather than blocks.  A blocking sink is given as the number of complete *)
(* fwrite() calls it performs before one is short.                         *)
(***************************************************************************)
\* write_nb(fd, buf, n)
write_nb(room, fails, n) ==
  IF room >= n THEN n ELSE IF room > 0 THEN room ELSE IF fails THEN -1 ELSE 0

\* result of a write: the fifo, the bytes the sink took, the return code
Wrote(f, bytes, rc) == [f |-> f, bytes |-> bytes, rc |-> rc]

RECURSIVE vio_fifo_write_nb(_, _, _, _, _)
vio_fifo_write_nb(f, room, fails, all, sunk) ==
  LET have == vio_fifo_get(f)
      done == write_nb(room, fails, have)
      g == vio_fifo_step(f, done)
  IN  IF f.get_lump = f.end_lump /\ ~all THEN Wrote(f, sunk, 0)
      ELSE IF have < 0
        THEN Wrote(Abort(f, "write_nb: get_ptr beyond *p_get_end"), sunk, 0)
      ELSE IF have = 0 THEN Wrote(f, sunk, 0)
      ELSE IF done < 0 THEN Wrote(f, sunk, -1)
      ELSE IF done < have \/ ~Running(g)
        THEN Wrote(g, sunk \o LoadBytes(f, done), 1)
      ELSE vio_fifo_write_nb(g, room - done, fails, all,
                             sunk \o LoadBytes(f, done))

RECURSIVE vio_fifo_fwrite(_, _, _)
vio_fifo_fwrite(f, nok, sunk) ==
  LET have == vio_fifo_get(f)
      g == vio_fifo_step(f, have)
  IN  IF have < 0
        THEN Wrote(Abort(f, "fwrite: get_ptr beyond *p_get_end"), sunk, 0)
      ELSE IF have = 0 THEN Wrote(f, sunk, 0)
      ELSE IF nok = 0 THEN Wrote(f, sunk, -1)
      ELSE IF ~Running(g) THEN Wrote(g, sunk \o LoadBytes(f, have), 0)
      ELSE vio_fifo_fwrite(g, nok - 1, sunk \o LoadBytes(f, have))

skip_to_next_lump(f) ==
  IF f.get_lump = f.end_lump
    THEN vio_fifo_sync_get([f EXCEPT !.get_ptr = p_end_val(f),
                                     !.p_get_end = PGetEnd(f.p_end, NULL)])
    ELSE vio_fifo_sync_get(
           vio_fifo_set_get_ptr(f, ddl_next(f.base, f.get_lump), NullPtr))

vio_fifo_skip_to_end(f) ==
  vio_fifo_sync_get([f EXCEPT !.get_lump = f.end_lump,
                              !.get_ptr = p_end_val(f),
                              !.p_get_end = PGetEnd(f.p_end, NULL)])

(***************************************************************************)
(* Hold mark operations.                                                   *)
(***************************************************************************)
vio_fifo_set_hold_mark(f) ==
  LET g == vio_fifo_release_upto(f, f.get_lump)
      h == IF g.get_ptr = g.put_ptr THEN vio_fifo_reset_ptrs(g)
                                    ELSE [g EXCEPT !.hold_ptr = g.get_ptr]
  IN  IF ~Running(g) THEN g ELSE [h EXCEPT !.p_start = "hold_ptr"]

vio_fifo_clear_hold_mark(f) ==
  LET g == vio_fifo_release_upto(f, f.get_lump)
      h == IF g.get_ptr = g.put_ptr THEN vio_fifo_reset_ptrs(g) ELSE g
  IN  IF ~Running(g) THEN g ELSE [h EXCEPT !.p_start = "get_ptr"]

vio_fifo_back_to_hold_mark(f, set) ==
  LET g == IF vio_fifo_have_hold_mark(f)
             THEN vio_fifo_set_get_ptr(f, ddl_head(f.base), f.hold_ptr)
             ELSE f
  IN  IF ~Running(g) THEN g
      ELSE [g EXCEPT !.p_start = IF set THEN "hold_ptr" ELSE "get_ptr"]

(***************************************************************************)
(* vio_fifo_clear                                                          *)
(***************************************************************************)
vio_fifo_clear(f, clear_marks) ==
  LET lump == ddl_tail(f.base)
      a == vio_fifo_release_upto(f, lump)
      b == vio_fifo_reset_ptrs([a EXCEPT !.get_lump = lump, !.end_lump = lump])
      c == IF clear_marks
             THEN [b EXCEPT !.p_start = "get_ptr", !.p_end = "put_ptr"]
             ELSE b
  IN  IF ~Running(a) THEN a
      ELSE [c EXCEPT !.p_get_end = PGetEnd(c.p_end, NULL)]

\* the caller is not in a loop of vio_fifo_write_nb calls
NoDrain == [on |-> FALSE, rc |-> 1, want |-> <<>>, sunk |-> <<>>]

\* no call of qfs_append is in progress
NoAppend ==
  [pc |-> "idle", qfs |-> qfs_init_offset(NullPtr, 0, 0), null |-> TRUE,
   src |-> <<>>, i |-> 1, was |-> qfs_init_offset(NullPtr, 0, 0)]

Init ==
  /\ \E size \in MinLump..MaxLump : vff = vio_fifo_new(size)
  /\ nput = 0
  /\ ngot = 0
  /\ nops = 0
  /\ vff2 = vio_fifo_new(MaxLump)
  /\ drain = NoDrain
  /\ app = NoAppend

\* the caller may call an operation: the program has not aborted (and the
\* caller is not committed to draining the FIFO, see SpecDrain)
Ready == Running(vff) /\ nops < MaxOps /\ ~drain.on

\* the next n bytes a producer puts
NewBytes(n) == [i \in 1..n |-> nput + i]

PutBytes ==
  \E n \in 1..MaxReq :
    /\ Ready /\ nops' = nops + 1
    /\ nput + n <= MaxPut
    /\ vff' = vio_fifo_put_bytes(vff, NewBytes(n))
    /\ nput' = nput + n
    /\ UNCHANGED <<ngot, vff2, drain, app>>

Vprintf ==
  \E n \in 0..MaxReq :
    /\ Ready /\ nops' = nops + 1
    /\ nput + n <= MaxPut
    /\ vff' = vio_fifo_vprintf(vff, NewBytes(n), 0).f
    /\ nput' = nput + n
    /\ UNCHANGED <<ngot, vff2, drain, app>>

ReadNb ==
  \E n \in 0..MaxReq, fin \in {0, -1, -2}, request \in 0..1 :
    /\ Ready /\ nops' = nops + 1
    /\ nput + n <= MaxPut
    /\ LET r == vio_fifo_read_nb(vff, NewBytes(n), fin, request, 0)
       IN  /\ vff' = r.f
           /\ nput' = nput + r.taken
    /\ UNCHANGED <<ngot, vff2, drain, app>>

GetBytes ==
  \E n \in 1..MaxReq :
    /\ Ready /\ nops' = nops + 1
    /\ LET r == vio_fifo_get_bytes(vff, n, <<>>)
       IN  /\ vff' = r.f
           /\ ngot' = ngot + Len(r.bytes)
    /\ UNCHANGED <<nput, vff2, drain, app>>

WriteNb ==
  \E room \in 0..MaxReq, fails \in BOOLEAN, all \in BOOLEAN :
    /\ Ready /\ nops' = nops + 1
    /\ vff' = vio_fifo_write_nb(vff, room, fails, all, <<>>).f
    /\ UNCHANGED <<nput, ngot, vff2, drain, app>>

Fwrite ==
  \E nok \in 0..NLumps :
    /\ Ready /\ nops' = nops + 1
    /\ vff' = vio_fifo_fwrite(vff, nok, <<>>).f
    /\ UNCHANGED <<nput, ngot, vff2, drain, app>>

SkipToEnd ==
  /\ Ready /\ nops' = nops + 1
  /\ vff' = vio_fifo_skip_to_end(vff)
  /\ UNCHANGED <<nput, ngot, vff2, drain, app>>

\* a copy to a new FIFO, which the caller then drops; a copy that runs off
\* the source's lumps ends the program
Copy ==
  /\ Ready /\ nops' = nops + 1
  /\ vff' = Abort(vff, vio_fifo_copy(NULL_FIFO, vff).dst.abort)
  /\ UNCHANGED <<nput, ngot, vff2, drain, app>>

CopyTail ==
  /\ Ready /\ nops' = nops + 1
  /\ vff' = Abort(vff, vio_fifo_copy_tail(NULL_FIFO, vff).dst.abort)
  /\ UNCHANGED <<nput, ngot, vff2, drain, app>>

SetEndMark ==
  /\ Ready /\ nops' = nops + 1
  /\ vff' = vio_fifo_set_end_mark(vff)
  /\ UNCHANGED <<nput, ngot, vff2, drain, app>>

StepEndMark ==
  /\ Ready /\ nops' = nops + 1
  /\ vff' = vio_fifo_step_end_mark(vff)
  /\ UNCHANGED <<nput, ngot, vff2, drain, app>>

ClearEndMark ==
  /\ Ready /\ nops' = nops + 1
  /\ vff' = vio_fifo_clear_end_mark(vff)
  /\ UNCHANGED <<nput, ngot, vff2, drain, app>>

BackToEndMark ==
  \E keep \in BOOLEAN :
    /\ Ready /\ nops' = nops + 1
    /\ vff' = vio_fifo_back_to_end_mark(vff, keep)
    /\ UNCHANGED <<nput, ngot, vff2, drain, app>>

SetHoldMark ==
  /\ Ready /\ nops' = nops + 1
  /\ vff' = vio_fifo_set_hold_mark(vff)
  /\ UNCHANGED <<nput, ngot, vff2, drain, app>>

ClearHoldMark ==
  /\ Ready /\ nops' = nops + 1
  /\ vff' = vio_fifo_clear_hold_mark(vff)
  /\ UNCHANGED <<nput, ngot, vff2, drain, app>>

BackToHoldMark ==
  \E set \in BOOLEAN :
    /\ Ready /\ nops' = nops + 1
    /\ vff' = vio_fifo_back_to_hold_mark(vff, set)
    /\ UNCHANGED <<nput, ngot, vff2, drain, app>>

Clear ==
  \E clear_marks \in BOOLEAN :
    /\ Ready /\ nops' = nops + 1
    /\ vff' = vio_fifo_clear(vff, clear_marks)
    /\ UNCHANGED <<nput, ngot, vff2, drain, app>>

Next ==
  \/ PutBytes
  \/ Vprintf
  \/ ReadNb
  \/ GetBytes
  \/ WriteNb
  \/ Fwrite
  \/ SkipToEnd
  \/ Copy
  \/ CopyTail
  \/ SetEndMark
  \/ StepEndMark
  \/ ClearEndMark
  \/ BackToEndMark
  \/ SetHoldMark
  \/ ClearHoldMark
  \/ BackToHoldMark
  \/ Clear

Spec == Init /\ [][Next]_vars

\* a new FIFO used with vio_fifo_put_bytes and vio_fifo_get_bytes only
NextPutGet ==
  \/ PutBytes
  \/ GetBytes

SpecPutGet == Init /\ [][NextPutGet]_vars

(***************************************************************************)
(* Two FIFOs which differ in lump size only, given the same calls with the *)
(* same arguments.                                                         *)
(***************************************************************************)
InitSizes ==
  /\ vff = vio_fifo_new(MinLump)
  /\ vff2 = vio_fifo_new(MaxLump)
  /\ nput = 0
  /\ ngot = 0
  /\ nops = 0
  /\ drain = NoDrain
  /\ app = NoAppend

ReadyBoth == Running(vff) /\ Running(vff2) /\ nops < MaxOps

BothPutBytes ==
  \E n \in 1..MaxReq :
    /\ ReadyBoth /\ nops' = nops + 1
    /\ nput + n <= MaxPut
    /\ vff' = vio_fifo_put_bytes(vff, NewBytes(n))
    /\ vff2' = vio_fifo_put_bytes(vff2, NewBytes(n))
    /\ nput' = nput + n
    /\ UNCHANGED <<ngot, drain, app>>

BothGetBytes ==
  \E n \in 1..MaxReq :
    /\ ReadyBoth /\ nops' = nops + 1
    /\ LET r == vio_fifo_get_bytes(vff, n, <<>>)
       IN  /\ vff' = r.f
           /\ ngot' = ngot + Len(r.bytes)
    /\ vff2' = vio_fifo_get_bytes(vff2, n, <<>>).f
    /\ UNCHANGED <<nput, drain, app>>

BothSkipToEnd ==
  /\ ReadyBoth /\ nops' = nops + 1
  /\ vff' = vio_fifo_skip_to_end(vff)
  /\ vff2' = vio_fifo_skip_to_end(vff2)
  /\ UNCHANGED <<nput, ngot, drain, app>>

BothSetEndMark ==
  /\ ReadyBoth /\ nops' = nops + 1
  /\ vff' = vio_fifo_set_end_mark(vff)
  /\ vff2' = vio_fifo_set_end_mark(vff2)
  /\ UNCHANGED <<nput, ngot, drain, app>>

BothStepEndMark ==
  /\ ReadyBoth /\ nops' = nops + 1
  /\ vff' = vio_fifo_step_end_mark(vff)
  /\ vff2' = vio_fifo_step_end_mark(vff2)
  /\ UNCHANGED <<nput, ngot, drain, app>>

BothClearEndMark ==
  /\ ReadyBoth /\ nops' = nops + 1
  /\ vff' = vio_fifo_clear_end_mark(vff)
  /\ vff2' = vio_fifo_clear_end_mark(vff2)
  /\ UNCHANGED <<nput, ngot, drain, app>>

BothBackToEndMark ==
  \E keep \in BOOLEAN :
    /\ ReadyBoth /\ nops' = nops + 1
    /\ vff' = vio_fifo_back_to_end_mark(vff, keep)
    /\ vff2' = vio_fifo_back_to_end_mark(vff2, keep)
    /\ UNCHANGED <<nput, ngot, drain, app>>

BothSetHoldMark ==
  /\ ReadyBoth /\ nops' = nops + 1
  /\ vff' = vio_fifo_set_hold_mark(vff)
  /\ vff2' = vio_fifo_set_hold_mark(vff2)
  /\ UNCHANGED <<nput, ngot, drain, app>>

BothClearHoldMark ==
  /\ ReadyBoth /\ nops' = nops + 1
  /\ vff' = vio_fifo_clear_hold_mark(vff)
  /\ vff2' = vio_fifo_clear_hold_mark(vff2)
  /\ UNCHANGED <<nput, ngot, drain, app>>

BothBackToHoldMark ==
  \E set \in BOOLEAN :
    /\ ReadyBoth /\ nops' = nops + 1
    /\ vff' = vio_fifo_back_to_hold_mark(vff, set)
    /\ vff2' = vio_fifo_back_to_hold_mark(vff2, set)
    /\ UNCHANGED <<nput, ngot, drain, app>>

BothClear ==
  \E clear_marks \in BOOLEAN :
    /\ ReadyBoth /\ nops' = nops + 1
    /\ vff' = vio_fifo_clear(vff, clear_marks)
    /\ vff2' = vio_fifo_clear(vff2, clear_marks)
    /\ UNCHANGED <<nput, ngot, drain, app>>

NextSizes ==
  \/ BothPutBytes
  \/ BothGetBytes
  \/ BothSkipToEnd
  \/ BothSetEndMark
  \/ BothStepEndMark
  \/ BothClearEndMark
  \/ BothBackToEndMark
  \/ BothSetHoldMark
  \/ BothClearHoldMark
  \/ BothBackToHoldMark
  \/ BothClear

SpecSizes == InitSizes /\ [][NextSizes]_vars

(***************************************************************************)
(* What the FIFO holds, read off the lumps' storage.                       *)
(***************************************************************************)
\* marks a walk that runs off the lump list or backwards inside a lump
Lost == <<-1>>

\* the bytes stored from pointer p up to pointer q, following the lump list
RECURSIVE Span(_, _, _)
Span(f, p, q) ==
  IF p.l = q.l
    THEN IF InList(f.base, p.l) /\ q.o >= p.o THEN Bytes(f, p.l, p.o, q.o)
                                              ELSE Lost
    ELSE LET nx == ddl_next(f.base, p.l)
         IN  IF nx = NULL \/ p.o > f.size THEN Lost
             ELSE Bytes(f, p.l, p.o, f.size) \o Span(f, lump_data(nx), q)

\* the bytes a consumer may get: from GET up to END, or PUT if no end mark
Visible(f) == Span(f, f.get_ptr, p_end_val(f))

\* the bytes put since the end mark was set: from END up to PUT
Provisional(f) == Span(f, p_end_val(f), f.put_ptr)

\* everything from GET up to PUT
Stored(f) == Span(f, f.get_ptr, f.put_ptr)

\* the first n elements of s (all of s if it is shorter)
Prefix(s, n) == SubSeq(s, 1, IF n < Len(s) THEN n ELSE Len(s))

IsPrefix(s, t) == Len(s) <= Len(t) /\ s = SubSeq(t, 1, Len(s))

\* the bytes k+1, k+2, ..., m
Run(k, m) == [i \in 1..(m - k) |-> k + i]

\* a loop of vio_fifo_get_bytes(n) calls, repeated until one returns 0
\* (fuel bounds the number of calls)
RECURSIVE GetLoop(_, _, _)
GetLoop(f, n, fuel) ==
  LET r == vio_fifo_get_bytes(f, n, <<>>)
  IN  IF r.bytes = <<>> \/ fuel = 0 THEN r.bytes
      ELSE r.bytes \o GetLoop(r.f, n, fuel - 1)

Fuel == 2 * MaxPut

\* The only way a behaviour of MaxOps operations ends abnormally: the
\* assertion at the head of vio_fifo_release_lump fails in vio_fifo_clear.
\* A state in which get_ptr and *p_get_end are in different lumps takes
\* MaxOps operations to reach (C17_GetBytes), so no get is made in it.
OnlyClearAborts ==
  vff.abort \in {"", "release_lump: lump != get_lump"}

(***************************************************************************)
(* C1: round trip.  On a new FIFO used with put_bytes and get_bytes only,  *)
(* for every lump size: where nput bytes have been put and ngot of them    *)
(* returned, a loop of get_bytes(n) calls, whatever n > 0, repeated until  *)
(* one returns 0, returns exactly the bytes ngot+1 .. nput, in the order   *)
(* in which they were put.  (Since this holds before and after every       *)
(* get_bytes call, each call returns the next bytes in order.)             *)
(***************************************************************************)
C1_RoundTrip ==
  \A n \in 1..MaxReq : GetLoop(vff, n, Fuel) = Run(ngot, nput)

\* all MaxPut bytes were put, across more than one lump, and all returned
C1_Witness ==
  /\ nput = MaxPut /\ ngot = MaxPut
  /\ vff.spare # NULL
  /\ Stored(vff) = <<>>

(***************************************************************************)
(* C2: while an end mark is active, no byte put after the end mark is      *)
(* delivered by a consumer.  In every reachable state with an end mark,    *)
(* where V is what lies between GET and END: get_bytes(n) returns the      *)
(* first n bytes of V and a get_bytes loop returns V; write_nb and fwrite  *)
(* hand the sink a prefix of V (all of V if the sink takes everything and  *)
(* write_nb is told "all"); copy makes a FIFO holding V; skip_to_end       *)
(* leaves nothing to get; after each consumer the end mark is still active *)
(* and what lies between GET and END is the rest of V; and after a         *)
(* producer (put_bytes, vprintf, read_nb) it is V still.                   *)
(***************************************************************************)
C2_EndMarkHides ==
  (Running(vff) /\ vio_fifo_have_end_mark(vff)) =>
    LET V == Visible(vff)
        Rest(g, taken) == /\ Running(g)
                          /\ vio_fifo_have_end_mark(g)
                          /\ IsPrefix(taken, V)
                          /\ Visible(g) = SubSeq(V, Len(taken) + 1, Len(V))
    IN  /\ V # Lost
        /\ \A n \in 1..MaxReq :
             LET r == vio_fifo_get_bytes(vff, n, <<>>)
             IN  /\ r.bytes = Prefix(V, n)
                 /\ Rest(r.f, r.bytes)
                 /\ GetLoop(vff, n, Fuel) = V
        /\ \A room \in 0..MaxPut, fails \in BOOLEAN, all \in BOOLEAN :
             LET w == vio_fifo_write_nb(vff, room, fails, all, <<>>)
             IN  /\ Rest(w.f, w.bytes)
                 /\ (all /\ room >= Len(V)) => w.bytes = V
        /\ \A nok \in 0..NLumps :
             LET w == vio_fifo_fwrite(vff, nok, <<>>)
             IN  /\ Rest(w.f, w.bytes)
                 /\ (nok = NLumps) => w.bytes = V
        /\ LET c == vio_fifo_copy(NULL_FIFO, vff).dst
           IN  Running(c) /\ Stored(c) = V
        /\ LET g == vio_fifo_skip_to_end(vff)
           IN  /\ Rest(g, V)
               /\ \A n \in 1..MaxReq : vio_fifo_get_bytes(g, n, <<>>).bytes = <<>>
        /\ \A n \in 1..MaxReq : (nput + n <= MaxPut) =>
             LET new == NewBytes(n)
             IN  /\ Rest(vio_fifo_put_bytes(vff, new), <<>>)
                 /\ Rest(vio_fifo_vprintf(vff, new, 0).f, <<>>)
                 /\ Rest(vio_fifo_read_nb(vff, new, 0, 1, 0).f, <<>>)

(***************************************************************************)
(* C3: end mark rollback.  From every reachable state: set an end mark,    *)
(* so that the FIFO holds the visible bytes V; put m provisional bytes,    *)
(* which may run into further lumps; call back_to_end_mark, keep true or   *)
(* false.  Then the end mark is active iff keep, a get_bytes loop returns  *)
(* exactly V when the mark is gone and the FIFO holds exactly V up to PUT  *)
(* in either case, and a byte put after the rollback follows V directly.   *)
(***************************************************************************)
C3_Rollback ==
  Running(vff) =>
    \A m \in 1..MaxPut, keep \in BOOLEAN : (nput + m < MaxPut) =>
      LET a == vio_fifo_set_end_mark(vff)
          V == Visible(a)
          b == vio_fifo_put_bytes(a, NewBytes(m))
          g == vio_fifo_back_to_end_mark(b, keep)
          new == <<nput + m + 1>>
          h == vio_fifo_put_bytes(g, new)
      IN  /\ V # Lost
          /\ Running(g)
          /\ vio_fifo_have_end_mark(g) = keep
          /\ Visible(g) = V
          /\ Stored(g) = V
          /\ \A n \in 1..MaxReq : GetLoop(g, n, Fuel) = V
          /\ Running(h)
          /\ Stored(h) = V \o new
          /\ \A n \in 1..MaxReq :
               GetLoop(h, n, Fuel) = IF keep THEN V ELSE V \o new

(***************************************************************************)
(* C4: rewind to the hold mark.  In every reachable state with a hold mark *)
(* active and HOLD in the head lump, back_to_hold_mark (set true or false) *)
(* puts GET at the hold position, the same lump and the same offset as     *)
(* HOLD, so that a get_bytes loop then returns the bytes from HOLD up to   *)
(* the visible end.                                                        *)
(***************************************************************************)
C4_BackToHold ==
  (/\ Running(vff)
   /\ vio_fifo_have_hold_mark(vff)
   /\ vff.hold_ptr.l = ddl_head(vff.base)) =>
    \A set \in BOOLEAN :
      LET g == vio_fifo_back_to_hold_mark(vff, set)
      IN  /\ Running(g)
          /\ g.get_ptr = vff.hold_ptr
          /\ g.get_lump = vff.hold_ptr.l
          /\ \A n \in 1..MaxReq :
               GetLoop(g, n, Fuel) = Span(vff, vff.hold_ptr, p_end_val(vff))

(***************************************************************************)
(* C5: set_hold_mark and clear_hold_mark discard everything before GET.    *)
(* From every reachable state, after either call the head lump is          *)
(* get_lump; after set_hold_mark the hold mark is active and HOLD equals   *)
(* GET, after clear_hold_mark it is not active; and a rewind made then, at *)
(* once or after a further get_bytes, makes visible no more than was       *)
(* visible at the call: no byte consumed before the call comes back.       *)
(***************************************************************************)
C5_HoldDiscards ==
  Running(vff) =>
    LET V == Visible(vff)
        NoMore(g) ==
          \A set \in BOOLEAN, n \in 0..MaxReq :
            LET r == vio_fifo_get_bytes(g, n, <<>>)
                h == vio_fifo_back_to_hold_mark(r.f, set)
            IN  /\ Running(h)
                /\ \E k \in 0..Len(V) : Visible(h) = SubSeq(V, k + 1, Len(V))
        s == vio_fifo_set_hold_mark(vff)
        c == vio_fifo_clear_hold_mark(vff)
    IN  /\ V # Lost
        /\ Running(s)
        /\ ddl_head(s.base) = s.get_lump
        /\ vio_fifo_have_hold_mark(s)
        /\ s.hold_ptr = s.get_ptr
        /\ Visible(s) = V
        /\ NoMore(s)
        /\ Running(c)
        /\ ddl_head(c.base) = c.get_lump
        /\ ~vio_fifo_have_hold_mark(c)
        /\ Visible(c) = V
        /\ NoMore(c)

(***************************************************************************)
(* C6: empty means collapsed.  In every reachable state, if the effective  *)
(* start (HOLD if a hold mark is active, else GET) equals PUT, then the    *)
(* list holds exactly one lump, get_lump and end_lump are that lump, GET   *)
(* and PUT are at its start and put_end at its end, and HOLD and END are   *)
(* at its start too, or still NULL as vio_fifo_new left them.              *)
(***************************************************************************)
C6_EmptyCollapsed ==
  (Running(vff) /\ p_start_val(vff) = vff.put_ptr) =>
    LET head == ddl_head(vff.base)
    IN  /\ Len(vff.base) = 1
        /\ vff.get_lump = head
        /\ vff.end_lump = head
        /\ vff.get_ptr = lump_data(head)
        /\ vff.put_ptr = lump_data(head)
        /\ vff.put_end = lump_end(vff, head)
        /\ vff.hold_ptr \in {NullPtr, lump_data(head)}
        /\ vff.end_ptr \in {NullPtr, lump_data(head)}

(***************************************************************************)
(* C7: lump order.  In every reachable state the lump list is not empty,   *)
(* get_lump and end_lump are members of it, and get_lump is not after      *)
(* end_lump in list order (head <= get_lump <= end_lump <= tail).          *)
(***************************************************************************)
C7_LumpOrder ==
  Running(vff) =>
    /\ vff.base # <<>>
    /\ InList(vff.base, vff.get_lump)
    /\ InList(vff.base, vff.end_lump)
    /\ 1 <= PosOf(vff.base, vff.get_lump)
    /\ PosOf(vff.base, vff.get_lump) <= PosOf(vff.base, vff.end_lump)
    /\ PosOf(vff.base, vff.end_lump) <= Len(vff.base)

\* three lumps, GET in the middle one behind a hold mark, END in the tail
C7_Witness ==
  /\ Running(vff)
  /\ Len(vff.base) >= 3
  /\ vio_fifo_have_hold_mark(vff)
  /\ vff.get_lump # ddl_head(vff.base)
  /\ vff.get_lump # vff.end_lump

\* an end mark in a lump before the tail, GET before it in another lump
C7_WitnessEnd ==
  /\ Running(vff)
  /\ Len(vff.base) >= 3
  /\ vio_fifo_have_end_mark(vff)
  /\ vff.end_lump # ddl_tail(vff.base)
  /\ vff.get_lump # vff.end_lump

(***************************************************************************)
(* C8: cursor bounds.  In every reachable state PUT lies in the tail lump, *)
(* not beyond put_end, which is the tail's end; GET lies in get_lump and   *)
(* is not beyond the visible limit *p_get_end, which lies in get_lump too; *)
(* an active HOLD lies in the head lump, and is not after GET when         *)
(* get_lump is the head; an active END lies in end_lump, and is not after  *)
(* PUT when end_lump is the tail.                                          *)
(***************************************************************************)
C8_CursorBounds ==
  Running(vff) =>
    LET head  == ddl_head(vff.base)
        tail  == ddl_tail(vff.base)
        In(ptr, lump) == ptr.l = lump /\ 0 <= ptr.o /\ ptr.o <= vff.size
    IN  /\ In(vff.put_ptr, tail)
        /\ vff.put_ptr.o <= vff.put_end.o
        /\ vff.put_end = lump_end(vff, tail)
        /\ In(vff.get_ptr, vff.get_lump)
        /\ In(p_get_end_val(vff), vff.get_lump)
        /\ vff.get_ptr.o <= p_get_end_val(vff).o
        /\ vio_fifo_have_hold_mark(vff) =>
             /\ In(vff.hold_ptr, head)
             /\ (vff.get_lump = head) => vff.hold_ptr.o <= vff.get_ptr.o
        /\ vio_fifo_have_end_mark(vff) =>
             /\ In(vff.end_ptr, vff.end_lump)
             /\ (vff.end_lump = tail) => vff.end_ptr.o <= vff.put_ptr.o

(***************************************************************************)
(* C9: visible limit selector.  In every reachable state p_get_end points  *)
(* at end_ptr when get_lump = end_lump and an end mark is active, at       *)
(* put_ptr when get_lump = end_lump and no end mark is active, and at the  *)
(* end of get_lump when get_lump is not end_lump.                          *)
(***************************************************************************)
C9_GetEndSelector ==
  Running(vff) =>
    vff.p_get_end =
      IF vff.get_lump # vff.end_lump THEN PGetEnd("lump_end", vff.get_lump)
      ELSE IF vio_fifo_have_end_mark(vff) THEN PGetEnd("end_ptr", NULL)
      ELSE PGetEnd("put_ptr", NULL)

\* GET has reached the lump of an active end mark which is not the tail,
\* with bytes still to get before END
C9_Witness ==
  /\ Running(vff)
  /\ vio_fifo_have_end_mark(vff)
  /\ vff.get_lump = vff.end_lump
  /\ vff.end_lump # ddl_tail(vff.base)
  /\ vff.get_lump # own_lump
  /\ vff.get_ptr # vff.end_ptr
  /\ ngot >= 1

(***************************************************************************)
(* C10: the embedded lump.  In every reachable state own_lump is either a  *)
(* member of the lump list or the spare, never both and never neither; it  *)
(* is never among the lumps got from the allocator, and no release hands   *)
(* the allocator's free a lump that is not one of those.                   *)
(***************************************************************************)
C10_OwnLump ==
  /\ vff.abort # "XFREE: not an allocated lump"
  /\ own_lump \notin vff.heap
  /\ Running(vff) => (InList(vff.base, own_lump) # (vff.spare = own_lump))

\* own_lump is the spare, having been released, and a lump got from the
\* allocator before one still held has been freed
C10_Witness ==
  /\ Running(vff)
  /\ vff.spare = own_lump
  /\ ~InList(vff.base, own_lump)
  /\ \E a \in Lumps \ {own_lump}, b \in vff.heap : a < b /\ a \notin vff.heap

\* the lumps in the list, and the spare if there is one
ListSet(f) == {f.base[i] : i \in 1..Len(f.base)}

SpareSet(f) == {f.spare} \ {NULL}

(***************************************************************************)
(* C11: spare reuse.  In every reachable state the spare, if there is one, *)
(* is not in the list, and the lumps got from the allocator and not yet    *)
(* freed are exactly the lumps of the list and the spare, own_lump apart:  *)
(* every released lump but the one kept as spare has been freed.  When the *)
(* list is back to one lump after it has grown, a spare is held.  A growth *)
(* (add_lump, where PUT is at the tail's end and the FIFO not empty) with  *)
(* a spare held appends that spare and allocates nothing; with no spare    *)
(* held it allocates exactly the lump it appends.                          *)
(***************************************************************************)
C11_SpareReuse ==
  Running(vff) =>
    /\ vff.spare \notin ListSet(vff)
    /\ vff.heap \cup {own_lump} = ListSet(vff) \cup SpareSet(vff)
    /\ (Len(vff.base) = 1 /\ vff.heap # {}) => vff.spare # NULL
    /\ (vff.put_ptr = vff.put_end /\ vff.put_ptr # p_start_val(vff)) =>
         LET g == vio_fifo_add_lump(vff)
         IN  /\ Running(g)
             /\ g.spare = NULL
             /\ Len(g.base) = Len(vff.base) + 1
             /\ IF vff.spare # NULL
                  THEN /\ ddl_tail(g.base) = vff.spare
                       /\ g.heap = vff.heap
                  ELSE /\ ddl_tail(g.base) \notin vff.heap \cup {own_lump}
                       /\ g.heap = vff.heap \cup {ddl_tail(g.base)}

\* the list grew to three lumps and is drained back to one: one released
\* lump is the spare, another has been freed, and the tail is full, so the
\* next put takes the spare
C11_Witness ==
  /\ Running(vff)
  /\ Len(vff.base) = 1
  /\ vff.spare # NULL
  /\ \E a \in Lumps \ {own_lump}, b \in vff.heap : a < b /\ a \notin vff.heap
  /\ vff.put_ptr = vff.put_end
  /\ vff.put_ptr # p_start_val(vff)

(***************************************************************************)
(* C12: lump-size independence.  Two FIFOs which differ in lump size only  *)
(* and have been given the same sequence of calls (puts, gets, skip, the   *)
(* end mark and hold mark operations, clear) return the same bytes, and so *)
(* the same count, from the next vio_fifo_get_bytes, whatever it asks for. *)
(***************************************************************************)
C12_SizeIndependent ==
  (Running(vff) /\ Running(vff2)) =>
    \A n \in 0..MaxPut :
      LET r  == vio_fifo_get_bytes(vff, n, <<>>)
          r2 == vio_fifo_get_bytes(vff2, n, <<>>)
      IN  (Running(r.f) /\ Running(r2.f)) => r.bytes = r2.bytes

(***************************************************************************)
(* C13: vio_fifo_clear, called in any reachable state, with clear_marks    *)
(* true or false, completes without a failed assertion and leaves the FIFO *)
(* empty, with a single lump and the hold, get, end and put pointers at    *)
(* its start; both marks are inactive afterwards if clear_marks, and are   *)
(* as they were if not.                                                    *)
(***************************************************************************)
C13_Clear ==
  Running(vff) =>
    \A clear_marks \in BOOLEAN :
      LET g    == vio_fifo_clear(vff, clear_marks)
          data == lump_data(ddl_head(g.base))
      IN  /\ Running(g)
          /\ Len(g.base) = 1
          /\ g.get_lump = ddl_head(g.base) /\ g.end_lump = ddl_head(g.base)
          /\ g.hold_ptr = data /\ g.get_ptr = data
          /\ g.end_ptr = data  /\ g.put_ptr = data
          /\ vio_fifo_get_bytes(g, MaxPut, <<>>).bytes = <<>>
          /\ vio_fifo_have_hold_mark(g) =
               (vio_fifo_have_hold_mark(vff) /\ ~clear_marks)
          /\ vio_fifo_have_end_mark(g) =
               (vio_fifo_have_end_mark(vff) /\ ~clear_marks)

\* a destination which already holds bytes, in two lumps, one byte taken
OtherBytes == [i \in 1..(MinLump + 1) |-> MaxPut + i]

OtherFifo ==
  vio_fifo_get_bytes(vio_fifo_put_bytes(vio_fifo_new(MinLump), OtherBytes),
                     1, <<>>).f

(***************************************************************************)
(* C14: vio_fifo_copy(dst, src), for a new dst and for a dst which already *)
(* holds bytes, completes and leaves in dst what dst held followed by      *)
(* exactly the bytes of src from its get_ptr up to its end mark, or up to  *)
(* its put_ptr if it has no end mark, in order, over all the lumps between;*)
(* and it leaves src (lump list, spare, pointers, marks, storage) as it    *)
(* was.                                                                    *)
(***************************************************************************)
C14_Copy ==
  Running(vff) =>
    \A dst \in {NULL_FIFO, OtherFifo} :
      LET r   == vio_fifo_copy(dst, vff)
          was == IF dst = NULL_FIFO THEN <<>> ELSE Stored(dst)
      IN  /\ Running(r.dst)
          /\ Visible(vff) # Lost
          /\ Stored(r.dst) = was \o Visible(vff)
          /\ Visible(r.dst) = Stored(r.dst)
          /\ r.src = vff

(***************************************************************************)
(* C15: vio_fifo_copy_tail(dst, src), for a new dst and for a dst which    *)
(* already holds bytes, completes and leaves in dst what dst held followed *)
(* by exactly the bytes of src from its end mark up to its put_ptr, in     *)
(* order, if src has an end mark, and what dst held and nothing more if    *)
(* src has no end mark; either way it leaves src as it was.                *)
(***************************************************************************)
C15_CopyTail ==
  Running(vff) =>
    \A dst \in {NULL_FIFO, OtherFifo} :
      LET r   == vio_fifo_copy_tail(dst, vff)
          was == IF dst = NULL_FIFO THEN <<>> ELSE Stored(dst)
      IN  /\ Running(r.dst)
          /\ Provisional(vff) # Lost
          /\ Stored(r.dst) = was \o (IF vio_fifo_have_end_mark(vff)
                                       THEN Provisional(vff) ELSE <<>>)
          /\ r.src = vff

(***************************************************************************)
(* C16: vio_fifo_skip_to_end discards exactly the visible bytes not yet    *)
(* read.  After it vio_fifo_get_bytes returns nothing, whatever it asks    *)
(* for; the hold mark and the end mark are set or not as they were; and    *)
(* when bytes are then put, and made visible by stepping the end mark if   *)
(* there is one, a drain returns the bytes which were after the end mark,  *)
(* then the new bytes, in order, and none of the bytes skipped.            *)
(***************************************************************************)
C16_SkipToEnd ==
  Running(vff) =>
    LET g == vio_fifo_skip_to_end(vff)
    IN  /\ Running(g)
        /\ \A n \in 1..MaxPut : vio_fifo_get_bytes(g, n, <<>>).bytes = <<>>
        /\ vio_fifo_have_hold_mark(g) = vio_fifo_have_hold_mark(vff)
        /\ vio_fifo_have_end_mark(g) = vio_fifo_have_end_mark(vff)
        /\ \A k \in 1..MaxReq :
             (nput + k <= MaxPut) =>
               LET h == vio_fifo_step_end_mark(
                            vio_fifo_put_bytes(g, NewBytes(k)))
               IN  \A n \in 1..MaxReq :
                     GetLoop(h, n, Fuel) = Provisional(vff) \o NewBytes(k)

\* s without its first n elements
Suffix(s, n) == SubSeq(s, n + 1, Len(s))

(***************************************************************************)
(* C17: vio_fifo_get_bytes(n) returns the first min(n, v) of the v visible *)
(* bytes not yet read, in order, across lump boundaries: fewer than n only *)
(* if there are no more, none if the FIFO is empty or all read.  It steps  *)
(* the get pointer past exactly the bytes returned: what is visible        *)
(* afterwards is the rest.  Every pass of its loop takes at least one byte *)
(* or stops (the count at get_ptr is never negative), so it terminates.    *)
(***************************************************************************)
C17_GetBytes ==
  Running(vff) =>
    /\ Visible(vff) # Lost
    /\ vio_fifo_get(vff) >= 0
    /\ \A n \in 0..(MaxPut + 1) :
         LET r == vio_fifo_get_bytes(vff, n, <<>>)
         IN  /\ Running(r.f)
             /\ r.bytes = Prefix(Visible(vff), n)
             /\ Visible(r.f) = Suffix(Visible(vff), Len(r.bytes))
             /\ vio_fifo_get(r.f) >= 0

(***************************************************************************)
(* C18: vio_fifo_clear_end_mark leaves no end mark, end_lump the tail of   *)
(* the list, and every byte from get_ptr to put_ptr visible: the bytes     *)
(* that were visible followed by the bytes that were after the end mark.   *)
(* A drain after it, by gets of any size or by one get, completes and      *)
(* returns those bytes in order.                                           *)
(***************************************************************************)
C18_ClearEndMark ==
  Running(vff) =>
    LET g   == vio_fifo_clear_end_mark(vff)
        all == Visible(vff) \o Provisional(vff)
    IN  /\ Running(g)
        /\ ~vio_fifo_have_end_mark(g)
        /\ g.end_lump = ddl_tail(g.base)
        /\ Visible(vff) # Lost /\ Provisional(vff) # Lost
        /\ Visible(g) = all
        /\ Stored(g) = all
        /\ \A n \in 1..MaxReq : GetLoop(g, n, Fuel) = all
        /\ LET r == vio_fifo_get_bytes(g, MaxPut + 1, <<>>)
           IN  Running(r.f) /\ r.bytes = all

C19_WitnessStep ==
  /\ Running(vff)
  /\ ~vio_fifo_have_end_mark(vff)
  /\ Stored(vff) # <<>>
  /\ vff.put_ptr # vff.end_ptr
  /\ vio_fifo_step_end_mark(vff) = vff

(***************************************************************************)
(* C20: vio_fifo_back_to_end_mark(keep).  With no end mark it changes      *)
(* nothing.  With an end mark, every lump after end_lump leaves the list,  *)
(* so that end_lump is the tail, and nothing is after the mark; put_ptr is *)
(* where end_ptr was and what is stored is what was visible -- or, when    *)
(* nothing is left between the start (hold mark if set, else get_ptr) and  *)
(* the end mark, all pointers are at the start of that lump and the FIFO   *)
(* is empty.                                                               *)
(* Afterwards there is an end mark iff there was one and keep is true.     *)
(***************************************************************************)
C20_BackToEndMark ==
  Running(vff) =>
    \A keep \in BOOLEAN :
      LET g    == vio_fifo_back_to_end_mark(vff, keep)
          data == lump_data(vff.end_lump)
      IN  /\ Running(g)
          /\ vio_fifo_have_end_mark(g) = (vio_fifo_have_end_mark(vff) /\ keep)
          /\ IF ~vio_fifo_have_end_mark(vff)
               THEN g = vff
               ELSE /\ g.end_lump = vff.end_lump
                    /\ g.end_lump = ddl_tail(g.base)
                    /\ g.base = SubSeq(vff.base, 1, PosOf(vff.base, vff.end_lump))
                    /\ Provisional(g) = <<>>
                    /\ IF p_start_val(vff) = vff.end_ptr
                          /\ vff.end_ptr # vff.put_ptr
                         THEN /\ g.put_ptr = data /\ g.get_ptr = data
                              /\ g.end_ptr = data /\ g.hold_ptr = data
                              /\ Stored(g) = <<>>
                         ELSE /\ Visible(vff) # Lost
                              /\ Stored(g) = Visible(vff)
                              /\ g.put_ptr = vff.end_ptr
                              /\ g.get_ptr = vff.get_ptr
                              /\ g.end_ptr = vff.end_ptr
                              /\ g.hold_ptr = vff.hold_ptr

\* the visible bytes in the lumps before end_lump
BeforeEndLump(f) ==
  IF f.get_lump = f.end_lump THEN <<>>
  ELSE Span(f, f.get_ptr, lump_data(f.end_lump))

(***************************************************************************)
(* C21: vio_fifo_write_nb with all false hands the sink no byte of         *)
(* end_lump, and steps the get pointer past none: whatever the sink takes, *)
(* what is written is a prefix of the visible bytes in the lumps before    *)
(* end_lump, and with a sink that takes everything it is all of them, the  *)
(* result is 0 and the visible bytes of end_lump are still there.  With    *)
(* all true and such a sink every visible byte is written, up to the end   *)
(* mark, or put_ptr if there is none.                                      *)
(***************************************************************************)
C21_WriteNbAll ==
  Running(vff) =>
    /\ Visible(vff) # Lost /\ BeforeEndLump(vff) # Lost
    /\ \A room \in 0..MaxPut, fails \in BOOLEAN :
         LET w == vio_fifo_write_nb(vff, room, fails, FALSE, <<>>)
         IN  /\ Running(w.f)
             /\ IsPrefix(w.bytes, BeforeEndLump(vff))
             /\ Visible(w.f) = Suffix(Visible(vff), Len(w.bytes))
             /\ (room >= MaxPut) =>
                   /\ w.rc = 0
                   /\ w.bytes = BeforeEndLump(vff)
                   /\ w.f.get_lump = vff.end_lump
    /\ LET w == vio_fifo_write_nb(vff, MaxPut, FALSE, TRUE, <<>>)
       IN  /\ Running(w.f)
           /\ w.rc = 0
           /\ w.bytes = Visible(vff)
           /\ Visible(w.f) = <<>>

(***************************************************************************)
(* C22: when a write to the sink fails inside vio_fifo_write_nb, the call  *)
(* returns a value < 0 and leaves the FIFO as the writes which succeeded   *)
(* before it in that call left it: the get pointer is past exactly the     *)
(* bytes the sink took, the failed write has moved nothing (the state is   *)
(* the one a sink which blocks at that point leaves), the bytes not yet    *)
(* written are all still visible, the bytes after the end mark and the     *)
(* marks are as they were, and a second call with a sink which takes       *)
(* everything writes the remaining bytes in order.  The length of every    *)
(* write offered to such a sink is defined (it is the difference of two    *)
(* pointers into one lump).                                                *)
(***************************************************************************)
C22_WriteNbError ==
  Running(vff) =>
    \A room \in 0..MaxPut, all \in BOOLEAN :
      LET w == vio_fifo_write_nb(vff, room, TRUE, all, <<>>)
          b == vio_fifo_write_nb(vff, room, FALSE, all, <<>>)
          retry == vio_fifo_write_nb(w.f, MaxPut, FALSE, TRUE, <<>>)
      IN  /\ Running(w.f)
          /\ (w.rc = -1) =>
               /\ Len(w.bytes) = room
               /\ Visible(vff) # Lost /\ Provisional(vff) # Lost
               /\ IsPrefix(w.bytes, Visible(vff))
               /\ Visible(w.f) = Suffix(Visible(vff), Len(w.bytes))
               /\ Visible(w.f) # <<>>
               /\ Provisional(w.f) = Provisional(vff)
               /\ w.f.p_start = vff.p_start /\ w.f.p_end = vff.p_end
               /\ w.f = b.f /\ w.bytes = b.bytes
               /\ (room = 0) => w.f = vff
               /\ Running(retry.f)
               /\ retry.rc = 0
               /\ w.bytes \o retry.bytes = Visible(vff)

\* the bytes vio_fifo_write_nb is allowed to write
Allowed(f, all) == IF all THEN Visible(f) ELSE BeforeEndLump(f)

(***************************************************************************)
(* C23: the result of vio_fifo_write_nb, with a sink which accepts room    *)
(* bytes and then accepts none (it blocks).  The result is > 0 exactly     *)
(* when the sink accepted fewer bytes than it was offered in some write,   *)
(* that is when room is less than the number of bytes the call is allowed  *)
(* to write; the result is 0 otherwise, and then none of those bytes       *)
(* remains.  Either way the bytes handed to the sink are the first bytes   *)
(* allowed, in order, and the get pointer is past exactly those.  Over two *)
(* calls, the second with all true and a sink which takes everything, the  *)
(* bytes handed over are the visible bytes, in order, each once.           *)
(***************************************************************************)
C23_WriteNbResult ==
  Running(vff) =>
    \A room \in 0..MaxPut, all \in BOOLEAN :
      LET w    == vio_fifo_write_nb(vff, room, FALSE, all, <<>>)
          next == vio_fifo_write_nb(w.f, MaxPut, FALSE, TRUE, <<>>)
      IN  /\ Running(w.f)
          /\ Visible(vff) # Lost /\ Allowed(vff, all) # Lost
          /\ w.rc = (IF room < Len(Allowed(vff, all)) THEN 1 ELSE 0)
          /\ w.bytes = Prefix(Allowed(vff, all), room)
          /\ Visible(w.f) = Suffix(Visible(vff), Len(w.bytes))
          /\ (w.rc = 0) => Allowed(w.f, all) = <<>>
          /\ Running(next.f)
          /\ next.rc = 0
          /\ w.bytes \o next.bytes = Visible(vff)

\* the bytes a vio_fifo_read_nb(request) asks the file for if every read is
\* filled: the rest of the current lump (a whole lump if it is full), then
\* one whole lump for each lump of the request still to come
ReadFirst(f) ==
  IF f.put_ptr.o >= f.put_end.o THEN f.size ELSE f.put_end.o - f.put_ptr.o

ReadMore(f, request) ==
  IF f.put_ptr.o >= f.put_end.o /\ request > 0 THEN request - 1 ELSE request

ReadWant(f, request) == ReadFirst(f) + ReadMore(f, request) * f.size

\* the call meets the end of what the file can supply now (n bytes): the
\* file runs dry before the last read of the call starts
ReadStopsEarly(f, n, request) ==
  IF ReadMore(f, request) = 0 THEN n = 0
  ELSE n <= ReadWant(f, request) - f.size

\* the inputs of a read: n new bytes available, then fin
ReadInputs == {n \in 0..MaxReq : nput + n <= MaxPut} \X {0, -1, -2} \X (0..3)

Freed(f, freed) == [f |-> f, freed |-> freed]

\* the do ... while loop of vio_fifo_free
RECURSIVE FreeLoop(_, _, _)
FreeLoop(f, lump, freed) ==
  LET toss == lump # own_lump /\ lump # NULL
      g    == IF toss THEN XFREE(f, lump) ELSE f
      done == IF toss THEN Append(freed, lump) ELSE freed
      nx   == ddl_head(g.base)
  IN  IF ~Running(g) THEN Freed(g, done)
      ELSE IF nx = NULL THEN Freed(ddl_pop(g), done)
      ELSE FreeLoop(ddl_pop(g), nx, done)

\* vio_fifo_free which leaves the spare lump alone
free_list_only(f) == FreeLoop([f EXCEPT !.spare = NULL], NULL, <<>>)

vio_fifo_free(f) == FreeLoop([f EXCEPT !.spare = NULL], f.spare, <<>>)

\* the elements of a sequence
Range(s) == {s[i] : i \in 1..Len(s)}

(***************************************************************************)
(* C25: destroy releases all owned memory exactly once.  In every          *)
(* reachable state each separately allocated lump is either in the list or *)
(* is the spare, never both and never neither; vio_fifo_free hands each of *)
(* them to XFREE exactly once, never own_lump (which goes with the FIFO    *)
(* structure), nothing twice and nothing that is not allocated, and leaves *)
(* no lump allocated, in the list or spare.                                *)
(***************************************************************************)
C25_Free ==
  Running(vff) =>
    /\ vff.heap = (ListSet(vff) \cup SpareSet(vff)) \ {own_lump}
    /\ ListSet(vff) \cap SpareSet(vff) = {}
    /\ \A i, j \in 1..Len(vff.base) : vff.base[i] = vff.base[j] => i = j
    /\ LET r == vio_fifo_free(vff)
       IN  /\ Running(r.f)
           /\ r.f.heap = {} /\ r.f.base = <<>> /\ r.f.spare = NULL
           /\ Range(r.freed) = vff.heap
           /\ Len(r.freed) = Cardinality(vff.heap)
           /\ own_lump \notin Range(r.freed)

\* own_lump has been released, reused and is in the list again, with an
\* allocated lump beside it, and an allocated lump is the spare: the spare
\* is freed first, then the allocated lump of the list, own_lump is not
C25_Witness ==
  /\ Running(vff)
  /\ own_lump \in ListSet(vff)
  /\ vff.spare # NULL /\ vff.spare # own_lump
  /\ LET r == vio_fifo_free(vff)
     IN  /\ Running(r.f) /\ Len(r.freed) >= 2 /\ r.freed[1] = vff.spare
         /\ r.f.heap = {}

\* own_lump is the spare and the list is all allocated lumps
C25_WitnessOwnSpare ==
  /\ Running(vff) /\ vff.spare = own_lump /\ Len(vff.base) >= 2
  /\ LET r == vio_fifo_free(vff)
     IN  Running(r.f) /\ Len(r.freed) = Len(vff.base) /\ r.f.heap = {}

\* the lumps the FIFO refers to: the ends of the list, get_lump, end_lump
\* and the lumps which hold an active hold mark and an active end mark
Referred(f) ==
  {ddl_head(f.base), ddl_tail(f.base), f.get_lump, f.end_lump}
    \cup (IF f.p_start = "hold_ptr" THEN {f.hold_ptr.l} ELSE {})
    \cup (IF f.p_end = "end_ptr" THEN {f.end_ptr.l} ELSE {})

(***************************************************************************)
(* C26: no reference after release.  In every reachable state the head and *)
(* the tail of the list, get_lump, end_lump and the lumps which hold an    *)
(* active hold mark and an active end mark are lumps in the list; none of  *)
(* them is the spare or a lump which has been freed; and the spare is not  *)
(* in the list.                                                            *)
(***************************************************************************)
C26_NoStaleLump ==
  Running(vff) =>
    /\ \A l \in Referred(vff) :
         /\ InList(vff.base, l)
         /\ l # vff.spare
         /\ l = own_lump \/ l \in vff.heap
    /\ ~InList(vff.base, vff.spare)

(***************************************************************************)
(* C27: when no hold mark is active, get_lump is the head of the list      *)
(* after every public operation: every lump wholly before GET has been     *)
(* released, whichever operation moved GET forward.                        *)
(***************************************************************************)
C27_GetLumpIsHead ==
  (Running(vff) /\ vff.p_start = "get_ptr") =>
    vff.get_lump = ddl_head(vff.base)

(***************************************************************************)
(* C28: when no end mark is active, end_lump is the tail of the list after *)
(* every public operation, including after growth by add_lump, after       *)
(* back_to_end_mark with keep = false and after clear_end_mark.            *)
(***************************************************************************)
C28_EndLumpIsTail ==
  Running(vff) =>
    /\ (vff.p_end = "put_ptr") => vff.end_lump = ddl_tail(vff.base)
    /\ LET a == vio_fifo_back_to_end_mark(vff, FALSE)
           b == vio_fifo_clear_end_mark(vff)
       IN  /\ Running(a) /\ a.p_end = "put_ptr"
           /\ a.end_lump = ddl_tail(a.base)
           /\ Running(b) /\ b.p_end = "put_ptr"
           /\ b.end_lump = ddl_tail(b.base)
    /\ \A n \in 1..MaxReq :
         (nput + n <= MaxPut) =>
           LET g == vio_fifo_put_bytes(vff, NewBytes(n))
           IN  /\ Running(g)
               /\ (g.p_end = "put_ptr") => g.end_lump = ddl_tail(g.base)

\* the assertions at the head of vio_fifo_release_lump
ReleaseAsserts ==
  {"release_lump: lump != NULL", "release_lump: lump != get_lump",
   "release_lump: lump != end_lump"}

\* the FIFO after each public operation which can release a lump
AfterRelease(f) ==
  {vio_fifo_get_bytes(f, n, <<>>).f : n \in 1..MaxReq}
    \cup {vio_fifo_write_nb(f, MaxPut, FALSE, all, <<>>).f : all \in BOOLEAN}
    \cup {vio_fifo_fwrite(f, MaxPut, <<>>).f}
    \cup {vio_fifo_clear(f, clear_marks) : clear_marks \in BOOLEAN}
    \cup {vio_fifo_set_hold_mark(f), vio_fifo_clear_hold_mark(f)}
    \cup {vio_fifo_back_to_end_mark(f, keep) : keep \in BOOLEAN}

(***************************************************************************)
(* C29: the release precondition is never violated.  In no reachable state *)
(* does a public operation (the get path, clear, set and clear hold mark,  *)
(* back to end mark) call vio_fifo_release_lump with NULL, with the        *)
(* current get_lump or with the current end_lump: the assertions at the    *)
(* head of vio_fifo_release_lump never fail.                               *)
(***************************************************************************)
C29_ReleaseAsserts ==
  /\ vff.abort \notin ReleaseAsserts
  /\ Running(vff) => \A g \in AfterRelease(vff) : g.abort \notin ReleaseAsserts

\* the assertions at the head of vio_fifo_add_lump
AddAsserts ==
  {"add_lump: put_ptr == put_end", "add_lump: put_ptr != *p_start"}

\* the FIFO after each put operation, for every input within the bounds
AfterPut(f) ==
  {vio_fifo_put_bytes(f, NewBytes(n)) : n \in {k \in 1..MaxReq : nput + k <= MaxPut}}
    \cup {vio_fifo_vprintf(f, NewBytes(n), 0).f :
            n \in {k \in 0..MaxReq : nput + k <= MaxPut}}
    \cup {vio_fifo_read_nb(f, NewBytes(i[1]), i[2], i[3], 0).f : i \in ReadInputs}

AtEndOfInnerLump(f, ptr) ==
  ptr.o >= f.size /\ ptr.l # ddl_tail(f.base)

(***************************************************************************)
(* C31: growth keeps GET and END unambiguous.  When vio_fifo_add_lump      *)
(* appends a new tail: GET moves to the start of the new lump iff GET was  *)
(* equal to PUT before (which happens only with an active hold mark), and  *)
(* otherwise stays; END and end_lump move to the start of the new lump iff *)
(* the effective end was equal to PUT before, and otherwise stay; PUT      *)
(* moves to the start of the new lump.  And in no reachable state is GET,  *)
(* or an active END, at the physical end of a lump which is not the tail.  *)
(***************************************************************************)
C31_GrowthUnambiguous ==
  Running(vff) =>
    /\ ~AtEndOfInnerLump(vff, vff.get_ptr)
    /\ (vff.p_end = "end_ptr") => ~AtEndOfInnerLump(vff, vff.end_ptr)
    /\ (vff.put_ptr = vff.put_end) =>
         LET g    == vio_fifo_add_lump(vff)
             lump == ddl_tail(g.base)
         IN  /\ Running(g)
             /\ g.base = Append(vff.base, lump) /\ ~InList(vff.base, lump)
             /\ g.put_ptr = lump_data(lump) /\ g.put_end = lump_end(g, lump)
             /\ (vff.get_ptr = vff.put_ptr) => vff.p_start = "hold_ptr"
             /\ IF vff.get_ptr = vff.put_ptr
                  THEN g.get_lump = lump /\ g.get_ptr = lump_data(lump)
                  ELSE g.get_lump = vff.get_lump /\ g.get_ptr = vff.get_ptr
             /\ IF p_end_val(vff) = vff.put_ptr
                  THEN g.end_lump = lump /\ p_end_val(g) = lump_data(lump)
                  ELSE g.end_lump = vff.end_lump /\ g.end_ptr = vff.end_ptr
             /\ g.p_start = vff.p_start /\ g.p_end = vff.p_end
             /\ g.hold_ptr = vff.hold_ptr

\* behind a hold mark everything has been got, an end mark is at PUT and the
\* tail lump is full: GET, END and PUT all go to the start of the new lump
C31_Witness ==
  /\ Running(vff) /\ vff.put_ptr = vff.put_end
  /\ vff.p_start = "hold_ptr" /\ vff.get_ptr = vff.put_ptr
  /\ vff.p_end = "end_ptr" /\ vff.end_ptr = vff.put_ptr
  /\ LET g == vio_fifo_add_lump(vff)
     IN  /\ Running(g) /\ Len(g.base) = Len(vff.base) + 1
         /\ g.get_ptr = lump_data(ddl_tail(g.base))
         /\ g.end_ptr = g.get_ptr /\ g.put_ptr = g.get_ptr
         /\ g.hold_ptr = vff.hold_ptr

\* an end mark before PUT and GET before the end mark, with the tail lump
\* full: only PUT goes to the new lump
C31_WitnessStays ==
  /\ Running(vff) /\ vff.put_ptr = vff.put_end
  /\ vff.p_end = "end_ptr" /\ vff.end_ptr # vff.put_ptr
  /\ vff.get_ptr # vff.end_ptr
  /\ LET g == vio_fifo_add_lump(vff)
     IN  /\ Running(g) /\ g.get_ptr = vff.get_ptr /\ g.end_ptr = vff.end_ptr
         /\ g.end_lump = vff.end_lump /\ g.put_ptr.l # vff.put_ptr.l

\* the FIFO after each get-side operation which steps GET through the lumps
AfterStep(f) ==
  {vio_fifo_get_bytes(f, n, <<>>).f : n \in 1..MaxReq}
    \cup {vio_fifo_write_nb(f, room, FALSE, all, <<>>).f :
            room \in 0..MaxPut, all \in BOOLEAN}
    \cup {vio_fifo_fwrite(f, nok, <<>>).f : nok \in 0..MaxPut}

\* the FIFO after each get-side operation
AfterGet(f) == AfterStep(f) \cup {vio_fifo_skip_to_end(f)}

\* everything from HOLD up to PUT
Held(f) == Span(f, f.hold_ptr, f.put_ptr)

\* the list from lump l onwards
ListFrom(base, l) == SubSeq(base, PosOf(base, l), Len(base))

(***************************************************************************)
(* C32: a hold mark retains data.  While a hold mark is active and HOLD    *)
(* differs from PUT, no get-side operation (get_bytes, write_nb, fwrite,   *)
(* skip_to_end) releases a lump or resets the cursors, so every byte from  *)
(* HOLD onwards stays in the list.  When no hold mark is active, a         *)
(* get-side operation which steps GET into another lump releases every     *)
(* lump before the new get_lump.                                           *)
(***************************************************************************)
C32_HoldRetains ==
  Running(vff) =>
    /\ (vff.p_start = "hold_ptr" /\ vff.hold_ptr # vff.put_ptr) =>
         /\ Held(vff) # Lost
         /\ \A g \in AfterGet(vff) :
              /\ Running(g)
              /\ g.base = vff.base /\ g.spare = vff.spare /\ g.heap = vff.heap
              /\ g.hold_ptr = vff.hold_ptr /\ g.put_ptr = vff.put_ptr
              /\ g.end_ptr = vff.end_ptr /\ g.p_start = "hold_ptr"
              /\ Held(g) = Held(vff)
    /\ (vff.p_start = "get_ptr") =>
         \A g \in AfterStep(vff) :
           /\ Running(g)
           /\ (g.get_lump # vff.get_lump) =>
                /\ InList(vff.base, g.get_lump)
                /\ g.base = ListFrom(vff.base, g.get_lump)

\* the FIFO after each operation which is not a mark operation: every put,
\* get, skip, write, read and copy, and the reset of an empty FIFO
AfterPlain(f) ==
  AfterGet(f) \cup AfterPut(f)
    \cup {vio_fifo_write_nb(f, room, TRUE, all, <<>>).f :
            room \in 0..MaxPut, all \in BOOLEAN}
    \cup {vio_fifo_copy(NULL_FIFO, f).src, vio_fifo_copy_tail(NULL_FIFO, f).src}
    \cup {vio_fifo_reset_ptrs(f), vio_fifo_clear(f, FALSE)}

\* the FIFO after each end mark operation, and after each hold mark operation
AfterEndOp(f) ==
  {vio_fifo_set_end_mark(f), vio_fifo_step_end_mark(f), vio_fifo_clear_end_mark(f)}
    \cup {vio_fifo_back_to_end_mark(f, keep) : keep \in BOOLEAN}

AfterHoldOp(f) ==
  {vio_fifo_set_hold_mark(f), vio_fifo_clear_hold_mark(f)}
    \cup {vio_fifo_back_to_hold_mark(f, set) : set \in BOOLEAN}

(***************************************************************************)
(* C33: the mark flags are changed only by mark operations.  Every put,    *)
(* get, skip, write, read and copy, every reset of an empty FIFO and clear *)
(* with clear_marks = false leave the hold-active flag and the end-active  *)
(* flag as they were; the end mark operations leave the hold-active flag,  *)
(* and the hold mark operations the end-active flag; and of the end mark   *)
(* operations step_end_mark and back_to_end_mark with keep = true leave    *)
(* the end-active flag.                                                    *)
(***************************************************************************)
C33_MarkFlags ==
  Running(vff) =>
    /\ \A g \in AfterPlain(vff) :
         g.p_start = vff.p_start /\ g.p_end = vff.p_end
    /\ \A g \in AfterEndOp(vff) : g.p_start = vff.p_start
    /\ \A g \in AfterHoldOp(vff) : g.p_end = vff.p_end
    /\ vio_fifo_step_end_mark(vff).p_end = vff.p_end
    /\ vio_fifo_back_to_end_mark(vff, TRUE).p_end = vff.p_end

\* an end mark at PUT with bytes still to get: skip_to_end empties the FIFO,
\* the cursors are reset to the start of the lump and the end mark stays
C33_Witness ==
  /\ Running(vff)
  /\ vff.p_end = "end_ptr" /\ vff.end_ptr = vff.put_ptr
  /\ vff.p_start = "get_ptr" /\ vff.get_ptr # vff.put_ptr
  /\ LET g == vio_fifo_skip_to_end(vff)
     IN  /\ Running(g) /\ g.put_ptr # vff.put_ptr
         /\ g.put_ptr = lump_data(ddl_tail(g.base))
         /\ g.get_ptr = g.put_ptr /\ g.end_ptr = g.put_ptr
         /\ g.p_end = "end_ptr" /\ g.p_start = "get_ptr"

(***************************************************************************)
(* C34: vio_fifo_back_to_hold_mark called with set = true when no hold     *)
(* mark is active sets a hold mark at the current position: afterwards the *)
(* hold mark is active and HOLD equals GET, inside the head lump, and GET  *)
(* itself is unchanged.                                                    *)
(***************************************************************************)
C34_BackToHoldMarkSets ==
  (Running(vff) /\ vff.p_start = "get_ptr") =>
    LET g == vio_fifo_back_to_hold_mark(vff, TRUE)
    IN  /\ Running(g)
        /\ g.p_start = "hold_ptr"
        /\ g.hold_ptr = g.get_ptr
        /\ g.hold_ptr.l = ddl_head(g.base)
        /\ g.get_ptr = vff.get_ptr /\ g.get_lump = vff.get_lump

\* the free space of the tail lump as vio_fifo_vprintf finds it for its first
\* section: what is left of the tail, or a whole new lump if it is full
PrintRoom(f) ==
  IF f.put_ptr.o >= f.put_end.o THEN f.size ELSE f.put_end.o - f.put_ptr.o

\* the lumps a rendering of n bytes needs beyond that first section
PrintMore(f, n) ==
  IF n <= PrintRoom(f) THEN 0
  ELSE ((n - PrintRoom(f)) + f.size - 1) \div f.size

\* the renderings tried: n new bytes
PrintLens == {n \in 0..MaxReq : nput + n <= MaxPut}

FwriteTakes(f, nok) ==
  LET whole == IF nok = 0 THEN 0
               ELSE (f.size - f.get_ptr.o) + (nok - 1) * f.size
  IN  IF whole < Len(Visible(f)) THEN whole ELSE Len(Visible(f))

(***************************************************************************)
(* C36: blocking-sink write.  vio_fifo_fwrite writes all visible bytes in  *)
(* order and returns 0 with GET at the visible limit when every write of   *)
(* the sink is complete; when a write of the sink is short or fails it     *)
(* returns the error value at once, without a retry and without advancing  *)
(* GET over the chunk which was not written: the bytes of the complete     *)
(* writes are gone from the FIFO, the rest is still visible.               *)
(***************************************************************************)
C36_Fwrite ==
  Running(vff) =>
    /\ Visible(vff) # Lost
    /\ \A nok \in 0..MaxPut :
         LET w == vio_fifo_fwrite(vff, nok, <<>>)
             took == FwriteTakes(vff, nok)
         IN  /\ Running(w.f)
             /\ w.bytes = Prefix(Visible(vff), took)
             /\ Visible(w.f) = Suffix(Visible(vff), took)
             /\ Provisional(w.f) = Provisional(vff)
             /\ w.rc = (IF took < Len(Visible(vff)) THEN -1 ELSE 0)
             /\ (w.rc = 0) => w.f.get_ptr = p_end_val(w.f)
             /\ w.f.p_start = vff.p_start /\ w.f.p_end = vff.p_end

(***************************************************************************)
(* Draining.  After any operations the caller stops putting and calls      *)
(* vio_fifo_write_nb(vff, fd, true) again and again until it returns 0.    *)
(* The sink never fails; in each call it accepts some bytes (DrainSome) or *)
(* would block at once (DrainNone).  drain records the loop: the bytes     *)
(* visible when it started, the bytes the sink has taken and the result of *)
(* the last call.                                                          *)
(***************************************************************************)
StartDrain ==
  /\ Running(vff) /\ ~drain.on
  /\ drain' = [on |-> TRUE, rc |-> 1, want |-> Visible(vff), sunk |-> <<>>]
  /\ UNCHANGED <<vff, nput, ngot, nops, vff2, app>>

\* one call of the loop, to a sink with the given room
DrainCall(room) ==
  /\ Running(vff) /\ drain.on /\ drain.rc # 0
  /\ vff' = vio_fifo_write_nb(vff, room, FALSE, TRUE, <<>>).f
  /\ drain' = [drain EXCEPT
                 !.rc = vio_fifo_write_nb(vff, room, FALSE, TRUE, <<>>).rc,
                 !.sunk = @ \o vio_fifo_write_nb(vff, room, FALSE, TRUE, <<>>).bytes]
  /\ UNCHANGED <<nput, ngot, nops, vff2, app>>

DrainSome == \E room \in 1..MaxReq : DrainCall(room)

DrainNone == DrainCall(0)

\* the operations before the loop
Fill == nops < MaxFill /\ Next

NextDrain ==
  \/ Fill
  \/ StartDrain
  \/ DrainSome
  \/ DrainNone

\* a call of the loop is due: a DrainSome step is possible, and it changes
\* the state (DrainOpen is ENABLED <<DrainSome>>_vars, see DrainSomeMoves)
DrainOpen == Running(vff) /\ drain.on /\ drain.rc # 0

\* the sink accepts at least one byte again and again: weak fairness of
\* DrainSome, WF_vars(DrainSome), with its enabling condition written out
DrainFair == []<>(~DrainOpen) \/ []<><<DrainSome>>_vars

SpecDrain == Init /\ [][NextDrain]_vars /\ DrainFair

\* wherever a call is due, a call to a sink with room changes the state
DrainSomeMoves ==
  DrainOpen =>
    \A room \in 1..MaxReq :
      LET w == vio_fifo_write_nb(vff, room, FALSE, TRUE, <<>>)
      IN  w.f # vff \/ w.rc # drain.rc \/ w.bytes # <<>>

\* the loop has ended: the last call returned 0
Drained == drain.on /\ drain.rc = 0

\* what the claim says of the FIFO when the loop has ended
DrainedWell ==
  /\ Running(vff)
  /\ vff.get_ptr = p_end_val(vff) /\ vff.get_lump = vff.end_lump
  /\ drain.sunk = drain.want /\ drain.want # Lost
  /\ (vff.p_start = "get_ptr" /\ vff.p_end = "put_ptr") =>
       /\ vff.get_ptr = vff.put_ptr
       /\ Len(vff.base) = 1
       /\ vff.put_ptr = lump_data(ddl_head(vff.base))

(***************************************************************************)
(* C37: drain liveness.  With no further puts and a sink which accepts at  *)
(* least one byte again and again and never fails, repeated calls of       *)
(* vio_fifo_write_nb with all = true eventually return 0, and then GET is  *)
(* at the visible end and every byte which was visible has been written,   *)
(* in order; if no hold mark and no end mark is active the FIFO is then    *)
(* empty and collapsed to one lump.                                        *)
(***************************************************************************)
C37_DrainLiveness == drain.on ~> (Drained /\ DrainedWell)

(***************************************************************************)
(* C37, as a property of every state: whenever a call of the drain loop    *)
(* (vio_fifo_write_nb with all = true, no further puts, a sink which never *)
(* fails) has returned 0, GET is at the visible end and every byte which   *)
(* was visible has been written, in order; if no hold mark and no end mark *)
(* is active the FIFO is then empty and collapsed to one lump.             *)
(***************************************************************************)
C37_DrainedWell == Drained => DrainedWell

\* does a second call of the operation leave the FIFO as the first left it
Same(once, twice) == Running(once) /\ twice = once

(***************************************************************************)
(* C38: idempotence of the mark and skip operations.  From every reachable *)
(* state, calling set_end_mark, step_end_mark, clear_end_mark,             *)
(* set_hold_mark, clear_hold_mark or skip_to_end twice in a row gives the  *)
(* same state (lump list, spare, cursors, flags) as calling it once.       *)
(***************************************************************************)
C38_Idempotent ==
  Running(vff) =>
    /\ Same(vio_fifo_set_end_mark(vff),
            vio_fifo_set_end_mark(vio_fifo_set_end_mark(vff)))
    /\ Same(vio_fifo_step_end_mark(vff),
            vio_fifo_step_end_mark(vio_fifo_step_end_mark(vff)))
    /\ Same(vio_fifo_clear_end_mark(vff),
            vio_fifo_clear_end_mark(vio_fifo_clear_end_mark(vff)))
    /\ Same(vio_fifo_set_hold_mark(vff),
            vio_fifo_set_hold_mark(vio_fifo_set_hold_mark(vff)))
    /\ Same(vio_fifo_clear_hold_mark(vff),
            vio_fifo_clear_hold_mark(vio_fifo_clear_hold_mark(vff)))
    /\ Same(vio_fifo_skip_to_end(vff),
            vio_fifo_skip_to_end(vio_fifo_skip_to_end(vff)))

C38_Witness ==
  /\ Running(vff)
  /\ vff.get_lump # vff.end_lump
  /\ vff.get_ptr # p_end_val(vff)
  /\ vio_fifo_skip_to_end(vff) # vff
  /\ vio_fifo_set_hold_mark(vff) # vff
  /\ vio_fifo_set_end_mark(vff) # vff
  /\ Same(vio_fifo_skip_to_end(vff),
          vio_fifo_skip_to_end(vio_fifo_skip_to_end(vff)))
  /\ Same(vio_fifo_set_hold_mark(vff),
          vio_fifo_set_hold_mark(vio_fifo_set_hold_mark(vff)))
  /\ Same(vio_fifo_set_end_mark(vff),
          vio_fifo_set_end_mark(vio_fifo_set_end_mark(vff)))

(***************************************************************************)
(* C39: put-side operations do not disturb the consumer side.  put_bytes   *)
(* never changes the bytes already in the FIFO, the hold position, or the  *)
(* bytes between the read cursor and the visible end as they were before   *)
(* the call; with an end mark the visible region stays exactly as it was,  *)
(* and with no end mark it grows by exactly the bytes put.                 *)
(***************************************************************************)
Filled(f, l) == IF l = f.put_ptr.l THEN f.put_ptr.o ELSE f.size

PutKeeps(f, src) ==
  LET g == vio_fifo_put_bytes(f, src)
  IN  /\ Running(g)
      /\ IsPrefix(f.base, g.base)
      /\ \A i \in 1..Len(f.base) :
            Bytes(g, f.base[i], 0, Filled(f, f.base[i]))
              = Bytes(f, f.base[i], 0, Filled(f, f.base[i]))
      /\ Span(g, f.put_ptr, g.put_ptr) = src
      /\ g.hold_ptr = f.hold_ptr
      /\ g.p_start = f.p_start
      /\ g.p_end = f.p_end
      /\ Stored(f) # Lost => Stored(g) = Stored(f) \o src
      /\ (f.p_start = "hold_ptr" /\ Held(f) # Lost) => Held(g) = Held(f) \o src
      /\ Visible(f) # Lost =>
            Visible(g) = IF f.p_end = "end_ptr" THEN Visible(f)
                                                ELSE Visible(f) \o src

C39_WitnessNoEndMark ==
  /\ Running(vff)
  /\ vff.p_start = "hold_ptr"
  /\ vff.p_end = "put_ptr"
  /\ Held(vff) # Lost
  /\ Len(Held(vff)) > 0
  /\ vff.get_ptr = vff.put_ptr
  /\ vff.put_ptr.o = vff.size
  /\ nput + 2 <= MaxPut
  /\ PutKeeps(vff, NewBytes(2))

(***************************************************************************)
(* qfs_append, step by step.  app holds the call: the qf_str, the source   *)
(* string (its characters, the terminating '\0' is the position after the *)
(* last), the position src has reached, and the qf_str as it was at the    *)
(* call.  pc is "skip" in the first loop (while (qfs->offset > 0)), "copy" *)
(* in the second (while src is not at the '\0') and "done" after return.   *)
(***************************************************************************)
NUL == 0

\* *src
Deref(a) == IF a.i <= Len(a.src) THEN a.src[a.i] ELSE NUL

\* a qf_str of the given size with some bytes already in it
QfsStates ==
  {[qfs_init_offset(Ptr(1, 0), size, offset) EXCEPT
      !.ptr = Ptr(1, filled),
      !.text = [k \in 1..filled |-> 100 + k],
      !.overflow = overflow] :
     size \in 0..MaxBuf, filled \in 0..MaxBuf, offset \in 0..MaxOff,
     overflow \in {0, UintWrap - 1}}

AppendInputs ==
  {[pc |-> "call", qfs |-> q, null |-> null, src |-> [k \in 1..n |-> k],
    i |-> 1, was |-> q] :
     q \in {x \in QfsStates : x.ptr.o <= x.end.o},
     null \in BOOLEAN, n \in 0..MaxSrc}

InitAppend ==
  /\ vff = vio_fifo_new(MinLump)
  /\ nput = 0
  /\ ngot = 0
  /\ nops = 0
  /\ vff2 = vio_fifo_new(MaxLump)
  /\ drain = NoDrain
  /\ app \in {a \in AppendInputs : a.null => a.src = <<>>}

\* if (src == NULL) return ;
AppendEnter ==
  /\ app.pc = "call"
  /\ app' = [app EXCEPT !.pc = IF app.null THEN "done" ELSE "skip"]
  /\ UNCHANGED <<vff, nput, ngot, nops, vff2, drain>>

\* while (qfs->offset > 0) { if ('\0' == *src++) return ; --qfs->offset ; }
AppendSkip ==
  /\ app.pc = "skip"
  /\ app' = IF app.qfs.offset > 0
              THEN IF Deref(app) = NUL
                     THEN [app EXCEPT !.i = @ + 1, !.pc = "done"]
                     ELSE [app EXCEPT !.i = @ + 1, !.qfs.offset = @ - 1]
              ELSE [app EXCEPT !.pc = "copy"]
  /\ UNCHANGED <<vff, nput, ngot, nops, vff2, drain>>

\* second loop, src not at the '\0': if (qfs->ptr < qfs->end) *qfs->ptr++ = *src++ ;
AppendStore ==
  /\ app.pc = "copy"
  /\ Deref(app) # NUL
  /\ app.qfs.ptr.o < app.qfs.end.o
  /\ app' = [app EXCEPT !.qfs.text = Append(@, Deref(app)),
                        !.qfs.ptr = Ptr(@.l, @.o + 1),
                        !.i = @ + 1]
  /\ UNCHANGED <<vff, nput, ngot, nops, vff2, drain>>

\* second loop, src not at the '\0': else ++qfs->overflow ;   (src stays)
AppendOverflow ==
  /\ app.pc = "copy"
  /\ Deref(app) # NUL
  /\ ~(app.qfs.ptr.o < app.qfs.end.o)
  /\ app' = [app EXCEPT !.qfs.overflow = (@ + 1) % UintWrap]
  /\ UNCHANGED <<vff, nput, ngot, nops, vff2, drain>>

\* the second loop ends at the '\0' and the function returns
AppendReturn ==
  /\ app.pc = "copy"
  /\ Deref(app) = NUL
  /\ app' = [app EXCEPT !.pc = "done"]
  /\ UNCHANGED <<vff, nput, ngot, nops, vff2, drain>>

NextAppend ==
  \/ AppendEnter
  \/ AppendSkip
  \/ AppendStore
  \/ AppendOverflow
  \/ AppendReturn

\* the call runs on: a step which can be taken is taken
SpecAppend == InitAppend /\ [][NextAppend]_vars /\ WF_vars(NextAppend)

(***************************************************************************)
(* C40: qfs_append terminates for every source string and every buffer     *)
(* state: it appends as much of the source (after skipping the offset) as  *)
(* fits, never writes past the end of the buffer, and on return overflow   *)
(* has grown by exactly the number of source characters which did not fit. *)
(***************************************************************************)
MinOf(a, b) == IF a < b THEN a ELSE b

AppendSkipped(a) == MinOf(a.was.offset, Len(a.src))

AppendFitted(a) ==
  MinOf(Len(a.src) - AppendSkipped(a), a.was.end.o - a.was.ptr.o)

AppendReturned == app.pc = "done"

AppendWithin == app.qfs.ptr.o <= app.qfs.end.o

AppendResult ==
  AppendReturned =>
    /\ app.qfs.text = app.was.text
                        \o SubSeq(app.src, AppendSkipped(app) + 1,
                                  AppendSkipped(app) + AppendFitted(app))
    /\ app.qfs.ptr = Ptr(app.was.ptr.l, app.was.ptr.o + AppendFitted(app))
    /\ app.qfs.offset = app.was.offset - AppendSkipped(app)
    /\ app.qfs.overflow =
         (app.was.overflow
            + (Len(app.src) - AppendSkipped(app) - AppendFitted(app)))
           % UintWrap
    /\ app.qfs.str = app.was.str /\ app.qfs.end = app.was.end

C40_Append == <>AppendReturned /\ [](AppendWithin /\ AppendResult)

\* what does hold: no write past the end, and every call that returns has
\* appended what fits (a call returns only when all of the source fitted)
C40_AppendSafe == AppendWithin /\ AppendResult

C40_ReturnsOnlyIfFits ==
  AppendReturned =>
    Len(app.src) - AppendSkipped(app) <= app.was.end.o - app.was.ptr.o

\* the call which never returns: the buffer is full, the source is not at
\* its end, and overflow has gone once round
C40_Spinning ==
  /\ app.pc = "copy"
  /\ Deref(app) # NUL
  /\ app.qfs.ptr = app.qfs.end
  /\ app.qfs.overflow = app.was.overflow
  /\ app.i = AppendSkipped(app) + AppendFitted(app) + 1

====
